---- MODULE Spec2Model ----
(***************************************************************************)
(* reminiscer: the authorization and data-consistency layer of the quote   *)
(* sharing API (backend/internal/{middleware,handlers,models}).            *)
(*                                                                         *)
(* The store is the SQLite database behind models.Store: the users table   *)
(* (a set of rows, users are never deleted), the groups table (membership  *)
(* rows, kept in insertion order, which is created_at order) and the       *)
(* quotes table (kept in insertion order).  Every HTTP handler is one      *)
(* action, except the handlers whose store calls other requests can        *)
(* interleave with in a way the handler can observe (register, group       *)
(* update, group delete): these are one action per store call.             *)
(***************************************************************************)
EXTENDS Integers, Sequences, FiniteSets, TLC

VARIABLES
    users,      \* users table: set of rows
    groups,     \* groups table: sequence of membership rows, oldest first
    quotes,     \* quotes table: sequence of quotes, oldest first
    nextGroup,  \* number of membership row ids handed out so far (uuid.New)
    nextQuote,  \* number of quote ids handed out so far (uuid.New)
    now,        \* wall clock (time.Now), in token-lifetime units
    jwtHours,   \* config.JWT.ExpirationHours
    pc,         \* per request worker: the store call it is about to make
    loc,        \* per request worker: the handler's local variables
    out         \* the response written last, with the request it answers

vars == <<users, groups, quotes, nextGroup, nextQuote, now, jwtHours, pc, loc, out>>

(***************************************************************************)
(* Bounds of the model.                                                    *)
(***************************************************************************)
MaxTime == 1        \* the clock runs 0..MaxTime
MaxGroupRows == 3   \* membership rows inserted in one behaviour
MaxQuotes == 2      \* quotes inserted in one behaviour
IntBits == 16       \* width of the int the model computes offsets in
SeedQuoteCount == 12  \* quotes stored before the first list request

Workers == {1, 2}   \* requests in flight at once

(***************************************************************************)
(* Program constants.                                                      *)
(***************************************************************************)
DefaultPage == 1
DefaultLimit == 10
MaxLimit == 50

StatusOK == 200
StatusCreated == 201
StatusBadRequest == 400
StatusUnauthorized == 401
StatusForbidden == 403
StatusNotFound == 404
StatusConflict == 409
StatusInternalServerError == 500

JWTSecret == "server-secret"   \* config.JWT.Secret

(***************************************************************************)
(* Values.                                                                 *)
(***************************************************************************)
None == [none |-> TRUE]

\* The i-th element removed, the order of the others kept.
RemoveAt(s, i) == [j \in 1..(Len(s) - 1) |-> IF j < i THEN s[j] ELSE s[j + 1]]

Reverse(s) == [j \in 1..Len(s) |-> s[Len(s) + 1 - j]]

Range(s) == {s[j] : j \in 1..Len(s)}

(***************************************************************************)
(* api.SendSuccess / api.SendError: the response envelope.                 *)
(***************************************************************************)
SendSuccess(status, data) ==
    [success |-> TRUE, status |-> status, code |-> "", message |-> "", data |-> data]

SendError(status, code, message) ==
    [success |-> FALSE, status |-> status, code |-> code, message |-> message, data |-> None]

(***************************************************************************)
(* Credential store (models.SQLiteUserStore).                              *)
(***************************************************************************)
\* bcrypt.GenerateFromPassword: the stored value is not the plaintext.
HashPassword(password) == <<"bcrypt", password>>

\* bcrypt.CompareHashAndPassword
CompareHashAndPassword(hash, password) == hash = HashPassword(password)

\* SELECT ... FROM users WHERE id = ?  (None: sql.ErrNoRows -> NotFound)
UserGetByID(id) ==
    IF \E u \in users : u.id = id
    THEN CHOOSE u \in users : u.id = id
    ELSE None

\* (Fault variant: the lookup that never finds a row.)
LookupFindsNoUser(email) == None

\* SELECT ... FROM users WHERE email = ?  (None: nil, nil)
UserGetByEmail(email) ==
    IF \E u \in users : u.email = email
    THEN CHOOSE u \in users : u.email = email
    ELSE None

\* users.email is declared UNIQUE: an INSERT of a taken email is a constraint error.
\* (Fault variant: the column without its UNIQUE constraint.)
NoUniqueConstraint(email) == TRUE
EmailUnique(email) == \A u \in users : u.email # email

\* uuid.New(): an id no stored user has (users are never deleted).
NewUserID == Cardinality(users) + 1

\* SQLiteUserStore.Create: the row inserted for a registration request.
NewUserRow(req) ==
    [id |-> NewUserID, email |-> req.email, username |-> req.username,
     hash |-> HashPassword(req.password), authenticated |-> TRUE, created_at |-> now]

\* What the handlers serialize of a user (Password has json:"-").
UserJSON(u) ==
    [id |-> u.id, email |-> u.email, username |-> u.username,
     authenticated |-> u.authenticated]

\* (Fault variant: sql.ErrNoRows reported as NotFound instead.)
AuthenticateReportsNotFound(email, password) ==
    LET u == UserGetByEmail(email) IN
    IF u = None THEN [err |-> "NOT_FOUND", message |-> "User not found", user |-> None]
    ELSE IF ~CompareHashAndPassword(u.hash, password)
         THEN [err |-> "INVALID_CREDENTIALS", message |-> "Invalid email or password", user |-> None]
         ELSE [err |-> "", message |-> "", user |-> u]

\* SQLiteUserStore.Authenticate: the user, or the error code.
StoreAuthenticate(email, password) ==
    LET u == UserGetByEmail(email) IN
    IF u = None THEN [err |-> "INVALID_CREDENTIALS", message |-> "Invalid email or password", user |-> None]
    ELSE IF ~CompareHashAndPassword(u.hash, password)
         THEN [err |-> "INVALID_CREDENTIALS", message |-> "Invalid email or password", user |-> None]
         ELSE [err |-> "", message |-> "", user |-> u]

(***************************************************************************)
(* Session/token issuer (middleware.AuthMiddleware).                       *)
(***************************************************************************)
\* JWTConfig.TokenExpiration, in clock units.
TokenExpiration == jwtHours

\* GenerateToken at time t: HS256 over the claims, signed with the secret.
\* (Fault variant: the claims carrying the id of the first stored user.)
GenerateTokenOfFirstUser(user, t) ==
    [form |-> "jwt", alg |-> "HS256", key |-> JWTSecret,
     uid |-> 1, email |-> user.email, iat |-> t, exp |-> t + TokenExpiration]
GenerateTokenAt(user, t) ==
    [form |-> "jwt", alg |-> "HS256", key |-> JWTSecret,
     uid |-> user.id, email |-> user.email, iat |-> t, exp |-> t + TokenExpiration]

GenerateToken(user) == GenerateTokenAt(user, now)

\* The errors jwt.ParseWithClaims (golang-jwt v4) returns are *ValidationError
\* values carrying flags; jwt.ErrTokenExpired is a package-level error value.
NoError == [type |-> "nil", flags |-> {}]
ValidationError(flags) == [type |-> "*jwt.ValidationError", flags |-> flags]
ErrTokenExpired == [type |-> "*errors.errorString", flags |-> {"token is expired"}]

\* The key function of Authenticate/OptionalAuth: only HMAC methods are accepted.
\* (Fault variant: the key function without its method check.)
AnySigningMethod(alg) == TRUE
IsHMAC(alg) == alg \in {"HS256", "HS384", "HS512"}

\* jwt.ParseWithClaims(tokenString, claims, keyFunc) at the current time.
ParseWithClaims(tok) ==
    IF tok.form # "jwt" THEN [err |-> ValidationError({"malformed"}), valid |-> FALSE]
    ELSE IF ~IsHMAC(tok.alg) THEN [err |-> ValidationError({"unverifiable"}), valid |-> FALSE]
    ELSE LET flags == (IF now < tok.exp THEN {} ELSE {"expired"})
                      \cup (IF tok.key = JWTSecret THEN {} ELSE {"signature"})
         IN IF flags = {} THEN [err |-> NoError, valid |-> TRUE]
            ELSE [err |-> ValidationError(flags), valid |-> FALSE]

\* AuthMiddleware.Authenticate: pass with the resolved user, or the rejection.
\* (Fault variant: the gate without its Authenticated check.)
GateSkipsAuthenticatedFlag(user) == TRUE
GateUserOK(user) == user.authenticated

Authenticate(hdr) ==
    IF ~hdr.given
    THEN [pass |-> FALSE, user |-> None,
          resp |-> SendError(StatusUnauthorized, "UNAUTHORIZED", "Missing authorization header")]
    ELSE IF hdr.nparts # 2 \/ hdr.scheme # "Bearer"
    THEN [pass |-> FALSE, user |-> None,
          resp |-> SendError(StatusUnauthorized, "UNAUTHORIZED", "Invalid authorization format")]
    ELSE LET parsed == ParseWithClaims(hdr.token) IN
    IF parsed.err # NoError
    THEN IF parsed.err = ErrTokenExpired
         THEN [pass |-> FALSE, user |-> None,
               resp |-> SendError(StatusUnauthorized, "INVALID_TOKEN", "Token has expired")]
         ELSE [pass |-> FALSE, user |-> None,
               resp |-> SendError(StatusUnauthorized, "INVALID_TOKEN", "Invalid token")]
    ELSE IF ~parsed.valid
    THEN [pass |-> FALSE, user |-> None,
          resp |-> SendError(StatusUnauthorized, "INVALID_TOKEN", "Invalid token")]
    ELSE LET user == UserGetByID(hdr.token.uid) IN
    IF user = None
    THEN [pass |-> FALSE, user |-> None,
          resp |-> SendError(StatusUnauthorized, "UNAUTHORIZED", "User not found")]
    ELSE IF ~GateUserOK(user)
    THEN [pass |-> FALSE, user |-> None,
          resp |-> SendError(StatusUnauthorized, "UNAUTHORIZED", "User not authenticated")]
    ELSE [pass |-> TRUE, user |-> user, resp |-> None]

\* AuthMiddleware.OptionalAuth: every path ends in next(c); the user is set in
\* the context on the last path only.  The result is the user the context holds
\* when next runs (GetUserFromContext), None when nothing was set.
\* (Fault variant: the check without its Authenticated test.)
OptionalSkipsAuthenticatedFlag(user) == TRUE
OptionalUserOK(user) == user.authenticated

OptionalAuth(hdr) ==
    IF ~hdr.given
    THEN None
    ELSE IF hdr.nparts # 2 \/ hdr.scheme # "Bearer"
    THEN None
    ELSE LET parsed == ParseWithClaims(hdr.token) IN
    IF parsed.err # NoError \/ ~parsed.valid
    THEN None
    ELSE LET user == UserGetByID(hdr.token.uid) IN
    IF user = None \/ ~OptionalUserOK(user)
    THEN None
    ELSE user

(***************************************************************************)
(* Requests.  Strings stand for themselves; validator tags                 *)
(* (required, email, min=n) are evaluated on them.                         *)
(***************************************************************************)
\* len(s) of the strings requests carry.
StrLen(s) ==
    CASE s = "" -> 0
      [] s = "ab" -> 2
      [] s = "pw" -> 2
      [] OTHER -> 8

\* validate:"email"
IsEmail(s) == s \in {"a@x", "b@x", "c@x"}

\* RegisterRequest: email required,email; username required,min=3; password required,min=6
ValidRegisterRequest(req) ==
    /\ IsEmail(req.email)
    /\ StrLen(req.username) >= 3
    /\ StrLen(req.password) >= 6

\* AuthRequest: email required,email; password required,min=6
ValidAuthRequest(req) ==
    /\ IsEmail(req.email)
    /\ StrLen(req.password) >= 6

\* A user row written through UserStore with Authenticated = false (the column's
\* default): the store holds it before the first request.
SeedUser ==
    [id |-> 1, email |-> "a@x", username |-> "seeduser",
     hash |-> HashPassword("secret-1"), authenticated |-> FALSE, created_at |-> 0]

Emails == {"a@x", "b@x", "c@x", ""}
Usernames == {"username"}
Passwords == {"secret-1", "secret-2"}

RegisterRequests ==
    [email : Emails, username : Usernames, password : Passwords]
    \cup [email : {"b@x"}, username : {"ab"}, password : {"secret-1"}]

AuthRequests == [email : Emails, password : Passwords \cup {"pw"}]

\* Tokens a client can present: the ones GenerateToken has handed to a user at a
\* login or registration since the user was created, tokens signed with another
\* secret or carrying a non-HMAC algorithm, and strings that are no JWT.
IssuedTokens ==
    UNION {{GenerateTokenAt(u, t) : t \in u.created_at..now} : u \in users}

ForgedTokens ==
    {[form |-> "jwt", alg |-> "HS256", key |-> "other-secret", uid |-> u.id,
      email |-> u.email, iat |-> now, exp |-> now + 1] : u \in users}
    \cup {[form |-> "jwt", alg |-> "RS256", key |-> JWTSecret, uid |-> u.id,
           email |-> u.email, iat |-> now, exp |-> now + 1] : u \in users}

GarbageToken ==
    [form |-> "garbage", alg |-> "", key |-> "", uid |-> 0, email |-> "", iat |-> 0, exp |-> 0]

NoHeader == [given |-> FALSE, nparts |-> 0, scheme |-> "", token |-> GarbageToken]

Bearer(tok) == [given |-> TRUE, nparts |-> 2, scheme |-> "Bearer", token |-> tok]

MalformedHeaders ==
    {[given |-> TRUE, nparts |-> 1, scheme |-> "Bearer", token |-> GarbageToken],
     [given |-> TRUE, nparts |-> 2, scheme |-> "Basic", token |-> GarbageToken]}

Headers ==
    {NoHeader} \cup MalformedHeaders
    \cup {Bearer(t) : t \in IssuedTokens \cup ForgedTokens \cup {GarbageToken}}

(***************************************************************************)
(* Responses.                                                              *)
(***************************************************************************)
NoResponse == [ep |-> "", req |-> None, resp |-> None, by |-> ""]

\* The response `resp` of endpoint ep to request req; by: "gate" when the strict
\* gate wrote it, "handler" when the handler did.
Respond(ep, req, resp, by) == [ep |-> ep, req |-> req, resp |-> resp, by |-> by]

(***************************************************************************)
(* AuthHandler.                                                            *)
(***************************************************************************)
\* Register, up to and including the GetByEmail check.
RegisterLookup(w, req) ==
    /\ out = NoResponse
    /\ pc[w] = "idle"
    /\ UNCHANGED <<users, groups, quotes, nextGroup, nextQuote, now, jwtHours>>
    /\ IF ~ValidRegisterRequest(req)
       THEN /\ out' = Respond("register", req,
                        SendError(StatusBadRequest, "INVALID_INPUT", "Invalid request data"), "handler")
            /\ UNCHANGED <<pc, loc>>
       ELSE IF UserGetByEmail(req.email) # None
       THEN /\ out' = Respond("register", req,
                        SendError(StatusConflict, "ALREADY_EXISTS", "Email already registered"), "handler")
            /\ UNCHANGED <<pc, loc>>
       ELSE /\ pc' = [pc EXCEPT ![w] = "register_create"]
            /\ loc' = [loc EXCEPT ![w] = [req |-> req]]
            /\ UNCHANGED out

\* Register, from Users().Create on.  execFails: the INSERT fails in the driver.
RegisterCreate(w, execFails) ==
    /\ out = NoResponse
    /\ pc[w] = "register_create"
    /\ pc' = [pc EXCEPT ![w] = "idle"]
    /\ loc' = [loc EXCEPT ![w] = None]
    /\ UNCHANGED <<groups, quotes, nextGroup, nextQuote, now, jwtHours>>
    /\ LET req == loc[w].req
           user == NewUserRow(req)
       IN IF execFails \/ ~EmailUnique(req.email)
          THEN /\ out' = Respond("register", req,
                           SendError(StatusInternalServerError, "DATABASE_ERROR",
                                     "Failed to create user in database"), "handler")
               /\ UNCHANGED users
          ELSE /\ users' = users \cup {user}
               /\ out' = Respond("register", req,
                           SendSuccess(StatusCreated,
                                       [token |-> GenerateToken(user), user |-> UserJSON(user)]),
                           "handler")

\* Login.
Login(req) ==
    /\ out = NoResponse
    /\ UNCHANGED <<users, groups, quotes, nextGroup, nextQuote, now, jwtHours, pc, loc>>
    /\ IF ~ValidAuthRequest(req)
       THEN out' = Respond("login", req,
                     SendError(StatusBadRequest, "INVALID_INPUT", "Invalid request data"), "handler")
       ELSE LET a == StoreAuthenticate(req.email, req.password) IN
            IF a.err = "INVALID_CREDENTIALS"
            THEN out' = Respond("login", req,
                          SendError(StatusUnauthorized, "INVALID_CREDENTIALS",
                                    "Invalid email or password"), "handler")
            ELSE IF a.err = "DATABASE_ERROR"
            THEN out' = Respond("login", req,
                          SendError(StatusInternalServerError, "DATABASE_ERROR",
                                    "Database error occurred"), "handler")
            ELSE IF a.err # ""
            THEN out' = Respond("login", req,
                          SendError(StatusInternalServerError, "INTERNAL_ERROR",
                                    "Authentication failed"), "handler")
            ELSE out' = Respond("login", req,
                          SendSuccess(StatusOK,
                                      [token |-> GenerateToken(a.user), user |-> UserJSON(a.user)]),
                          "handler")

\* GET /auth/me behind Authenticate.
Me(hdr) ==
    /\ out = NoResponse
    /\ UNCHANGED <<users, groups, quotes, nextGroup, nextQuote, now, jwtHours, pc, loc>>
    /\ LET gate == Authenticate(hdr) IN
       IF ~gate.pass
       THEN out' = Respond("me", [hdr |-> hdr], gate.resp, "gate")
       ELSE out' = Respond("me", [hdr |-> hdr], SendSuccess(StatusOK, UserJSON(gate.user)), "handler")

\* The response leaves the server.  Responses are observed one at a time: a
\* request step waits for the last response to be delivered, which orders the
\* observations and leaves the order of the store calls free.
Deliver ==
    /\ out # NoResponse
    /\ out' = NoResponse
    /\ UNCHANGED <<users, groups, quotes, nextGroup, nextQuote, now, jwtHours, pc, loc>>

\* time.Now advances.
Tick ==
    /\ out = NoResponse
    /\ now < MaxTime
    /\ now' = now + 1
    /\ UNCHANGED <<users, groups, quotes, nextGroup, nextQuote, jwtHours, pc, loc, out>>

(***************************************************************************)
(* The authentication endpoints alone: registration, login, /auth/me.      *)
(***************************************************************************)
InitAuth ==
    /\ users = {SeedUser}
    /\ groups = <<>>
    /\ quotes = <<>>
    /\ nextGroup = 0
    /\ nextQuote = 0
    /\ now = 0
    /\ jwtHours \in {0, 1}
    /\ pc = [w \in Workers |-> "idle"]
    /\ loc = [w \in Workers |-> None]
    /\ out = NoResponse

NextAuth ==
    \/ \E w \in Workers, req \in RegisterRequests : RegisterLookup(w, req)
    \/ \E w \in Workers, execFails \in BOOLEAN : RegisterCreate(w, execFails)
    \/ \E req \in AuthRequests : Login(req)
    \/ \E hdr \in Headers : Me(hdr)
    \/ Tick
    \/ Deliver

SpecAuth == InitAuth /\ [][NextAuth]_vars

(***************************************************************************)
(* Membership model (models.SQLiteGroupStore).                             *)
(***************************************************************************)
\* SELECT ... FROM groups WHERE group_id = ? ORDER BY created_at DESC
\* (the empty sequence: NotFound "No groups found").
GetByGroupID(groupID) ==
    LET Match(r) == r.group_id = groupID IN Reverse(SelectSeq(groups, Match))

\* SELECT ... FROM groups WHERE member_id = ? ORDER BY created_at DESC
\* (the empty sequence: NotFound "No groups found").
\* (Fault variant: the WHERE clause dropped.)
GetEveryMembersRows(memberID) == Reverse(groups)
GetByMemberID(memberID) ==
    LET Match(r) == r.member_id = memberID IN Reverse(SelectSeq(groups, Match))

\* The handlers' loop: for _, g := range groups { if g.MemberID == user.ID ... }
\* (Fault variant: the loop finding every caller.)
EveryoneIsMember(rows, user) == TRUE
\* (Fault variant: the loop looking at the oldest row only.)
OnlyFounderIsMember(rows, user) == rows[Len(rows)].member_id = user.id
IsMember(rows, user) == \E i \in 1..Len(rows) : rows[i].member_id = user.id

(***************************************************************************)
(* Quote repository (models.SQLiteQuoteStore).                             *)
(***************************************************************************)
\* The row of table contents qs with the given id (None: sql.ErrNoRows).
QuoteRowByID(qs, id) ==
    IF \E i \in 1..Len(qs) : qs[i].id = id
    THEN qs[CHOOSE i \in 1..Len(qs) : qs[i].id = id]
    ELSE None

\* SELECT ... FROM quotes WHERE id = ?  (None: NotFound)
QuoteGetByID(id) == QuoteRowByID(quotes, id)

\* The rows the optional author filter selects, newest first.
QuotesMatching(author) ==
    LET Match(q) == author = "" \/ q.author = author IN Reverse(SelectSeq(quotes, Match))

\* Go's int: two's complement of IntBits bits (64 in the build; the model keeps
\* the wrap-around and scales the width down).
MaxInt == 2 ^ (IntBits - 1) - 1
WrapInt(x) ==
    LET m == 2 ^ IntBits
        y == x % m
    IN IF y > MaxInt THEN y - m ELSE y

\* SQLiteQuoteStore.List: LIMIT ? OFFSET ? over ORDER BY created_at DESC.
\* SQLite reads a negative OFFSET as 0.
StoreList(filter) ==
    LET page == IF filter.page < 1 THEN 1 ELSE filter.page
        limit == IF filter.limit < 1 THEN 10 ELSE filter.limit
        offset == WrapInt((page - 1) * limit)
        skip == IF offset < 0 THEN 0 ELSE offset
        rows == QuotesMatching(filter.author)
        last == IF skip + limit < Len(rows) THEN skip + limit ELSE Len(rows)
    IN IF skip >= Len(rows) THEN <<>> ELSE SubSeq(rows, skip + 1, last)

\* (Fault variants: the uploader taken from the request body; text and author
\* bound to each other's column.)
NewQuoteRowOfBodyUploader(req, user) ==
    [id |-> nextQuote + 1, text |-> req.text, author |-> req.author,
     uploader_id |-> req.uploader_id, group_id |-> req.group_id,
     created_at |-> now, updated_at |-> now]
NewQuoteRowSwapped(req, user) ==
    [id |-> nextQuote + 1, text |-> req.author, author |-> req.text,
     uploader_id |-> user.id, group_id |-> req.group_id,
     created_at |-> now, updated_at |-> now]

\* SQLiteQuoteStore.Create: id and timestamps stamped, row inserted.
NewQuoteRow(req, user) ==
    [id |-> nextQuote + 1, text |-> req.text, author |-> req.author,
     uploader_id |-> user.id, group_id |-> req.group_id,
     created_at |-> now, updated_at |-> now]

\* UPDATE quotes SET text = ?, author = ?, updated_at = ? WHERE id = ?
\* (Fault variant: the UPDATE without its WHERE clause.)
StoreQuoteUpdateEveryRow(id, text, author) ==
    [i \in 1..Len(quotes) |->
        [quotes[i] EXCEPT !.text = text, !.author = author, !.updated_at = now]]
StoreQuoteUpdate(id, text, author) ==
    [i \in 1..Len(quotes) |->
        IF quotes[i].id = id
        THEN [quotes[i] EXCEPT !.text = text, !.author = author, !.updated_at = now]
        ELSE quotes[i]]

\* DELETE FROM quotes WHERE id = ?
StoreQuoteDelete(id) ==
    LET Keep(q) == q.id # id IN SelectSeq(quotes, Keep)

\* getUsernameFn of the handlers.
UsernameOf(userID) ==
    LET u == UserGetByID(userID) IN IF u = None THEN "Unknown" ELSE u.username

\* toQuoteResponse
ToQuoteResponse(q, uploaderUsername) ==
    [id |-> q.id, text |-> q.text, author |-> q.author, uploader_id |-> q.uploader_id,
     group_id |-> q.group_id, created_at |-> q.created_at, updated_at |-> q.updated_at,
     uploader |-> uploaderUsername]

\* toQuoteResponses
ToQuoteResponses(qs) ==
    [i \in 1..Len(qs) |-> ToQuoteResponse(qs[i], UsernameOf(qs[i].uploader_id))]

\* CreateQuoteRequest: text, author, group_id all required.
ValidCreateQuoteRequest(req) == req.text # "" /\ req.author # "" /\ req.group_id # ""

\* UpdateQuoteRequest: text, author required.
ValidUpdateQuoteRequest(req) == req.text # "" /\ req.author # ""

\* The uploader check of Update and Delete.
\* (Fault variant: the comparison dropped.)
EveryoneIsUploader(quote, user) == TRUE
IsUploader(quote, user) == quote.uploader_id = user.id

(***************************************************************************)
(* QuoteHandler, every route behind Authenticate.                          *)
(***************************************************************************)
\* POST /quotes
QuoteCreate(hdr, req, execFails) ==
    /\ out = NoResponse
    /\ UNCHANGED <<users, groups, nextGroup, now, jwtHours, pc, loc>>
    /\ LET gate == Authenticate(hdr)
           user == gate.user
           rq == [hdr |-> hdr, body |-> req]
           rows == GetByGroupID(req.group_id)
           quote == NewQuoteRow(req, user)
       IN IF ~gate.pass
          THEN /\ out' = Respond("quote_create", rq, gate.resp, "gate")
               /\ UNCHANGED <<quotes, nextQuote>>
          ELSE IF ~ValidCreateQuoteRequest(req)
          THEN /\ out' = Respond("quote_create", rq,
                           SendError(StatusBadRequest, "INVALID_INPUT", "Invalid request data"), "handler")
               /\ UNCHANGED <<quotes, nextQuote>>
          ELSE IF rows = <<>>
          THEN /\ out' = Respond("quote_create", rq,
                           SendError(StatusNotFound, "NOT_FOUND", "Group not found"), "handler")
               /\ UNCHANGED <<quotes, nextQuote>>
          ELSE IF ~IsMember(rows, user)
          THEN /\ out' = Respond("quote_create", rq,
                           SendError(StatusForbidden, "FORBIDDEN", "Not a member of this group"), "handler")
               /\ UNCHANGED <<quotes, nextQuote>>
          ELSE /\ nextQuote < MaxQuotes
               /\ IF execFails
                  THEN /\ out' = Respond("quote_create", rq,
                                   SendError(StatusInternalServerError, "DATABASE_ERROR",
                                             "Failed to create quote"), "handler")
                       /\ UNCHANGED <<quotes, nextQuote>>
                  ELSE /\ quotes' = Append(quotes, quote)
                       /\ nextQuote' = nextQuote + 1
                       /\ out' = Respond("quote_create", rq,
                                   SendSuccess(StatusCreated, ToQuoteResponse(quote, user.username)),
                                   "handler")

\* if params.Page < 1 { params.Page = 1 }
ClampPage(page) == IF page < 1 THEN DefaultPage ELSE page

\* (Fault variant: the upper test of the limit left out.)
ClampLimitLowOnly(limit) == IF limit < 1 THEN DefaultLimit ELSE limit

\* if params.Limit < 1 || params.Limit > 50 { params.Limit = 10 }
ClampLimit(limit) == IF limit < 1 \/ limit > MaxLimit THEN DefaultLimit ELSE limit

\* GET /quotes?author=&page=&limit=
QuoteList(hdr, params) ==
    /\ out = NoResponse
    /\ UNCHANGED <<users, groups, quotes, nextGroup, nextQuote, now, jwtHours, pc, loc>>
    /\ LET gate == Authenticate(hdr)
           rq == [hdr |-> hdr, body |-> params]
           filter == [author |-> params.author, page |-> ClampPage(params.page),
                      limit |-> ClampLimit(params.limit)]
       IN IF ~gate.pass
          THEN out' = Respond("quote_list", rq, gate.resp, "gate")
          ELSE out' = Respond("quote_list", rq,
                        SendSuccess(StatusOK, ToQuoteResponses(StoreList(filter))), "handler")

\* GET /quotes/random?author=   (pick: the row ORDER BY RANDOM() LIMIT 1 yields)
QuoteGetRandom(hdr, author, pick) ==
    /\ out = NoResponse
    /\ UNCHANGED <<users, groups, quotes, nextGroup, nextQuote, now, jwtHours, pc, loc>>
    /\ LET gate == Authenticate(hdr)
           rq == [hdr |-> hdr, body |-> [author |-> author]]
           rows == QuotesMatching(author)
       IN IF ~gate.pass
          THEN /\ pick = 1
               /\ out' = Respond("quote_random", rq, gate.resp, "gate")
          ELSE IF rows = <<>>
          THEN /\ pick = 1
               /\ out' = Respond("quote_random", rq,
                           SendError(StatusNotFound, "NOT_FOUND", "No quotes found"), "handler")
          ELSE /\ pick \in 1..Len(rows)
               /\ out' = Respond("quote_random", rq,
                           SendSuccess(StatusOK,
                               ToQuoteResponse(rows[pick], UsernameOf(rows[pick].uploader_id))),
                           "handler")

\* PATCH /quotes/:id
QuoteUpdate(hdr, id, req, execFails) ==
    /\ out = NoResponse
    /\ UNCHANGED <<users, groups, nextGroup, nextQuote, now, jwtHours, pc, loc>>
    /\ LET gate == Authenticate(hdr)
           user == gate.user
           rq == [hdr |-> hdr, id |-> id, body |-> req]
           quote == QuoteGetByID(id)
       IN IF ~gate.pass
          THEN /\ out' = Respond("quote_update", rq, gate.resp, "gate")
               /\ UNCHANGED quotes
          ELSE IF quote = None
          THEN /\ out' = Respond("quote_update", rq,
                           SendError(StatusNotFound, "NOT_FOUND", "Quote not found"), "handler")
               /\ UNCHANGED quotes
          ELSE IF ~IsUploader(quote, user)
          THEN /\ out' = Respond("quote_update", rq,
                           SendError(StatusForbidden, "FORBIDDEN",
                                     "Not authorized to update this quote"), "handler")
               /\ UNCHANGED quotes
          ELSE IF ~ValidUpdateQuoteRequest(req)
          THEN /\ out' = Respond("quote_update", rq,
                           SendError(StatusBadRequest, "INVALID_INPUT", "Invalid request data"), "handler")
               /\ UNCHANGED quotes
          ELSE IF execFails
          THEN /\ out' = Respond("quote_update", rq,
                           SendError(StatusInternalServerError, "DATABASE_ERROR",
                                     "Failed to update quote"), "handler")
               /\ UNCHANGED quotes
          ELSE /\ quotes' = StoreQuoteUpdate(id, req.text, req.author)
               /\ out' = Respond("quote_update", rq,
                           SendSuccess(StatusOK,
                               ToQuoteResponse([quote EXCEPT !.text = req.text, !.author = req.author,
                                                             !.updated_at = now], user.username)),
                           "handler")

\* DELETE /quotes/:id
QuoteDelete(hdr, id, execFails) ==
    /\ out = NoResponse
    /\ UNCHANGED <<users, groups, nextGroup, nextQuote, now, jwtHours, pc, loc>>
    /\ LET gate == Authenticate(hdr)
           user == gate.user
           rq == [hdr |-> hdr, id |-> id]
           quote == QuoteGetByID(id)
       IN IF ~gate.pass
          THEN /\ out' = Respond("quote_delete", rq, gate.resp, "gate")
               /\ UNCHANGED quotes
          ELSE IF quote = None
          THEN /\ out' = Respond("quote_delete", rq,
                           SendError(StatusNotFound, "NOT_FOUND", "Quote not found"), "handler")
               /\ UNCHANGED quotes
          ELSE IF ~IsUploader(quote, user)
          THEN /\ out' = Respond("quote_delete", rq,
                           SendError(StatusForbidden, "FORBIDDEN",
                                     "Not authorized to delete this quote"), "handler")
               /\ UNCHANGED quotes
          ELSE IF execFails
          THEN /\ out' = Respond("quote_delete", rq,
                           SendError(StatusInternalServerError, "DATABASE_ERROR",
                                     "Failed to delete quote"), "handler")
               /\ UNCHANGED quotes
          ELSE /\ quotes' = StoreQuoteDelete(id)
               /\ out' = Respond("quote_delete", rq, SendSuccess(StatusOK, None), "handler")

(***************************************************************************)
(* The quote endpoints over a store that holds registered users and        *)
(* their groups.                                                           *)
(***************************************************************************)
RegisteredUser(id, email) ==
    [id |-> id, email |-> email, username |-> "username",
     hash |-> HashPassword("secret-2"), authenticated |-> TRUE, created_at |-> 0]

SeedUsers == {SeedUser, RegisteredUser(2, "b@x"), RegisteredUser(3, "c@x")}

GroupRow(id, groupID, name, memberID) ==
    [id |-> id, group_id |-> groupID, name |-> name, member_id |-> memberID,
     created_at |-> 0, updated_at |-> 0]

\* g1 has members 2 and 3, g2 has member 3, g3 has no row.
SeedGroups ==
    <<GroupRow(1, "g1", "n1", 2), GroupRow(2, "g1", "n1", 3), GroupRow(3, "g2", "n1", 3)>>

GroupKeys == {"g1", "g2", "g3"}

\* Two contents, and a body that fails validation (text is required).
QuoteContents == {[text |-> "t1", author |-> "x"], [text |-> "t2", author |-> "y"]}

CreateQuoteRequests ==
    {[text |-> c.text, author |-> c.author, group_id |-> g] :
        c \in QuoteContents \cup {[text |-> "", author |-> "x"]}, g \in GroupKeys}

UpdateQuoteRequests == QuoteContents \cup {[text |-> "", author |-> "x"]}

ListQuotesParams == [author : {"", "x"}, page : {0, 1, 2}, limit : {0, 1, 51}]

QuoteIDs == 1..(nextQuote + 1)

\* One unexpired token per stored user, and no header at all.
SessionHeaders == {Bearer(GenerateTokenAt(u, now)) : u \in users} \cup {NoHeader}

InitQuotes ==
    /\ users = SeedUsers
    /\ groups = SeedGroups
    /\ quotes = <<>>
    /\ nextGroup = Len(SeedGroups)
    /\ nextQuote = 0
    /\ now = 0
    /\ jwtHours = 1
    /\ pc = [w \in Workers |-> "idle"]
    /\ loc = [w \in Workers |-> None]
    /\ out = NoResponse

NextQuotes ==
    \/ \E hdr \in SessionHeaders, req \in CreateQuoteRequests, execFails \in BOOLEAN :
          QuoteCreate(hdr, req, execFails)
    \/ \E hdr \in SessionHeaders, params \in ListQuotesParams : QuoteList(hdr, params)
    \/ \E hdr \in SessionHeaders, author \in {"", "x", "y"}, pick \in 1..MaxQuotes :
          QuoteGetRandom(hdr, author, pick)
    \/ \E hdr \in SessionHeaders, id \in QuoteIDs, req \in UpdateQuoteRequests, execFails \in BOOLEAN :
          QuoteUpdate(hdr, id, req, execFails)
    \/ \E hdr \in SessionHeaders, id \in QuoteIDs, execFails \in BOOLEAN :
          QuoteDelete(hdr, id, execFails)
    \/ Deliver

SpecQuotes == InitQuotes /\ [][NextQuotes]_vars

(***************************************************************************)
(* GroupHandler, every route behind Authenticate.                          *)
(***************************************************************************)
\* CreateGroupRequest: name, group_id required; members required,min=1.
ValidCreateGroupRequest(req) == req.name # "" /\ req.group_id # "" /\ Len(req.members) >= 1

\* UpdateGroupRequest: name required; members required,min=1.
ValidUpdateGroupRequest(req) == req.name # "" /\ Len(req.members) >= 1

\* "Verify all members exist": the response of the first member that fails the
\* loop's checks, None when every member passes.
\* (Fault variant: the loop skipped.)
VerifyNoMember(members) == None
RECURSIVE VerifyMembers(_)
VerifyMembers(members) ==
    IF members = <<>> THEN None
    ELSE LET member == UserGetByID(Head(members)) IN
         IF member = None
         THEN SendError(StatusNotFound, "NOT_FOUND", "Member not found")
         ELSE IF ~member.authenticated
         THEN SendError(StatusBadRequest, "INVALID_INPUT", "Member not authenticated")
         ELSE VerifyMembers(Tail(members))

\* (Fault variant: the creator appended without the membership test.)
AlwaysAppendCreator(members, user) == Append(members, user.id)

\* "Add creator to members if not already included"
WithCreator(members, user) ==
    IF \E i \in 1..Len(members) : members[i] = user.id THEN members ELSE Append(members, user.id)

\* SQLiteGroupStore.Create for the k-th member of the loop: the row inserted.
NewGroupRow(req, memberID, k) ==
    [id |-> nextGroup + k, group_id |-> req.group_id, name |-> req.name,
     member_id |-> memberID, created_at |-> now, updated_at |-> now]

\* toGroupResponse
ToGroupResponse(rows) ==
    IF rows = <<>> THEN None
    ELSE [id |-> rows[1].id, group_id |-> rows[1].group_id, name |-> rows[1].name,
          members |-> [i \in 1..Len(rows) |-> UsernameOf(rows[i].member_id)],
          created_at |-> rows[1].created_at, updated_at |-> rows[1].updated_at]

\* (Fault variants: the UPDATE that also removes the other rows of the key; the
\* UPDATE matching on the row's group key instead of its id; the UPDATE that
\* leaves the name column out.)
StoreGroupUpdateDropsOthers(id, name) ==
    LET Kept(r) == r.id = id \/ \A j \in 1..Len(groups) :
                                  groups[j].id = id => groups[j].group_id # r.group_id
        rows == SelectSeq(groups, Kept)
    IN [i \in 1..Len(rows) |->
           IF rows[i].id = id THEN [rows[i] EXCEPT !.name = name, !.updated_at = now]
           ELSE rows[i]]
StoreGroupUpdateWholeKey(id, name) ==
    [i \in 1..Len(groups) |->
        IF \E j \in 1..Len(groups) :
              groups[j].id = id /\ groups[j].group_id = groups[i].group_id
        THEN [groups[i] EXCEPT !.name = name, !.updated_at = now]
        ELSE groups[i]]
StoreGroupUpdateKeepsName(id, name) == groups

\* UPDATE groups SET name = ?, updated_at = ? WHERE id = ?
StoreGroupUpdate(id, name) ==
    [i \in 1..Len(groups) |->
        IF groups[i].id = id THEN [groups[i] EXCEPT !.name = name, !.updated_at = now]
        ELSE groups[i]]

\* (Fault variants: the DELETE without its WHERE clause; the DELETE that
\* matches no row.)
StoreGroupDeleteEveryRow(id) == <<>>
StoreGroupDeleteNothing(id) == groups

\* DELETE FROM groups WHERE id = ?
StoreGroupDelete(id) ==
    LET Keep(r) == r.id # id IN SelectSeq(groups, Keep)

\* The quotes table after a DELETE FROM groups WHERE id = ? that succeeded.
\* quotes.group_id REFERENCES groups(group_id) ON DELETE CASCADE names a parent
\* column that is neither PRIMARY KEY nor UNIQUE, so no cascade runs: with
\* foreign keys enforced the DELETE fails (foreign key mismatch), without them
\* the clause is ignored.
\* (Fault variant: the cascade removing the quotes of the row's group key.)
CascadeDeletesQuotes(id) ==
    LET Keep(q) == \A i \in 1..Len(groups) : groups[i].id = id => groups[i].group_id # q.group_id
    IN SelectSeq(quotes, Keep)
QuotesAfterGroupDelete(id) == quotes

\* RowsAffected() > 0 of an UPDATE/DELETE ... WHERE id = ?
GroupRowExists(id) == \E i \in 1..Len(groups) : groups[i].id = id

\* POST /groups.  failAt = k > 0: the k-th Groups().Create of the insert loop
\* fails; the k-1 rows inserted before it stay.  failAt = 0: none fails.
GroupCreate(hdr, req, failAt) ==
    /\ out = NoResponse
    /\ UNCHANGED <<users, quotes, nextQuote, now, jwtHours, pc, loc>>
    /\ LET gate == Authenticate(hdr)
           user == gate.user
           rq == [hdr |-> hdr, body |-> req]
           verdict == VerifyMembers(req.members)
           members == WithCreator(req.members, user)
           n == IF failAt = 0 THEN Len(members) ELSE failAt - 1
           rows == [k \in 1..n |-> NewGroupRow(req, members[k], k)]
       IN IF ~gate.pass
          THEN /\ failAt = 0
               /\ out' = Respond("group_create", rq, gate.resp, "gate")
               /\ UNCHANGED <<groups, nextGroup>>
          ELSE IF ~ValidCreateGroupRequest(req)
          THEN /\ failAt = 0
               /\ out' = Respond("group_create", rq,
                           SendError(StatusBadRequest, "INVALID_INPUT", "Invalid request data"), "handler")
               /\ UNCHANGED <<groups, nextGroup>>
          ELSE IF verdict # None
          THEN /\ failAt = 0
               /\ out' = Respond("group_create", rq, verdict, "handler")
               /\ UNCHANGED <<groups, nextGroup>>
          ELSE /\ failAt <= Len(members)
               /\ nextGroup + n <= MaxGroupRows
               /\ groups' = groups \o rows
               /\ nextGroup' = nextGroup + n
               /\ out' = Respond("group_create", rq,
                           IF failAt = 0
                           THEN SendSuccess(StatusCreated, ToGroupResponse(rows))
                           ELSE SendError(StatusInternalServerError, "DATABASE_ERROR",
                                          "Failed to create group"),
                           "handler")

\* The entries of GET /groups: one per group key among the caller's rows, each
\* built from the caller's rows under that key (map iteration order is free).
GroupListEntries(rows) ==
    {LET Same(r) == r.group_id = k IN ToGroupResponse(SelectSeq(rows, Same)) :
        k \in {rows[i].group_id : i \in 1..Len(rows)}}

\* GET /groups
GroupList(hdr) ==
    /\ out = NoResponse
    /\ UNCHANGED <<users, groups, quotes, nextGroup, nextQuote, now, jwtHours, pc, loc>>
    /\ LET gate == Authenticate(hdr)
           rq == [hdr |-> hdr]
       IN IF ~gate.pass
          THEN out' = Respond("group_list", rq, gate.resp, "gate")
          ELSE out' = Respond("group_list", rq,
                        SendSuccess(StatusOK, GroupListEntries(GetByMemberID(gate.user.id))),
                        "handler")

\* PATCH /groups/:id, up to the row loop: the membership check on the rows read
\* once, then the members check.
GroupUpdateStart(w, hdr, groupID, req) ==
    /\ out = NoResponse
    /\ pc[w] = "idle"
    /\ UNCHANGED <<users, groups, quotes, nextGroup, nextQuote, now, jwtHours>>
    /\ LET gate == Authenticate(hdr)
           user == gate.user
           rq == [hdr |-> hdr, id |-> groupID, body |-> req]
           rows == GetByGroupID(groupID)
           verdict == VerifyMembers(req.members)
       IN IF ~gate.pass
          THEN /\ out' = Respond("group_update", rq, gate.resp, "gate")
               /\ UNCHANGED <<pc, loc>>
          ELSE IF ~ValidUpdateGroupRequest(req)
          THEN /\ out' = Respond("group_update", rq,
                           SendError(StatusBadRequest, "INVALID_INPUT", "Invalid request data"), "handler")
               /\ UNCHANGED <<pc, loc>>
          ELSE IF rows = <<>>
          THEN /\ out' = Respond("group_update", rq,
                           SendError(StatusNotFound, "NOT_FOUND", "Group not found"), "handler")
               /\ UNCHANGED <<pc, loc>>
          ELSE IF ~IsMember(rows, user)
          THEN /\ out' = Respond("group_update", rq,
                           SendError(StatusForbidden, "FORBIDDEN",
                                     "Not authorized to update this group"), "handler")
               /\ UNCHANGED <<pc, loc>>
          ELSE IF verdict # None
          THEN /\ out' = Respond("group_update", rq, verdict, "handler")
               /\ UNCHANGED <<pc, loc>>
          ELSE /\ pc' = [pc EXCEPT ![w] = "group_update"]
               /\ loc' = [loc EXCEPT ![w] = [rq |-> rq, rows |-> rows, i |-> 1]]
               /\ UNCHANGED out

\* One Groups().Update(g) of the row loop.
GroupUpdateRow(w, execFails) ==
    /\ out = NoResponse
    /\ pc[w] = "group_update"
    /\ loc[w].i <= Len(loc[w].rows)
    /\ UNCHANGED <<users, quotes, nextGroup, nextQuote, now, jwtHours>>
    /\ LET g == loc[w].rows[loc[w].i] IN
       IF execFails \/ ~GroupRowExists(g.id)
       THEN /\ out' = Respond("group_update", loc[w].rq,
                        SendError(StatusInternalServerError, "DATABASE_ERROR",
                                  "Failed to update group"), "handler")
            /\ pc' = [pc EXCEPT ![w] = "idle"]
            /\ loc' = [loc EXCEPT ![w] = None]
            /\ UNCHANGED groups
       ELSE /\ groups' = StoreGroupUpdate(g.id, loc[w].rq.body.name)
            /\ loc' = [loc EXCEPT ![w].i = @ + 1]
            /\ UNCHANGED <<pc, out>>

\* After the loop: the rows are read again for the response.
GroupUpdateFinish(w) ==
    /\ out = NoResponse
    /\ pc[w] = "group_update"
    /\ loc[w].i > Len(loc[w].rows)
    /\ UNCHANGED <<users, groups, quotes, nextGroup, nextQuote, now, jwtHours>>
    /\ pc' = [pc EXCEPT ![w] = "idle"]
    /\ loc' = [loc EXCEPT ![w] = None]
    /\ LET updated == GetByGroupID(loc[w].rq.id) IN
       IF updated = <<>>
       THEN out' = Respond("group_update", loc[w].rq,
                     SendError(StatusInternalServerError, "DATABASE_ERROR",
                               "Failed to retrieve updated group"), "handler")
       ELSE out' = Respond("group_update", loc[w].rq,
                     SendSuccess(StatusOK, ToGroupResponse(updated)), "handler")

\* DELETE /groups/:id, up to the row loop.
GroupDeleteStart(w, hdr, groupID) ==
    /\ out = NoResponse
    /\ pc[w] = "idle"
    /\ UNCHANGED <<users, groups, quotes, nextGroup, nextQuote, now, jwtHours>>
    /\ LET gate == Authenticate(hdr)
           user == gate.user
           rq == [hdr |-> hdr, id |-> groupID]
           rows == GetByGroupID(groupID)
       IN IF ~gate.pass
          THEN /\ out' = Respond("group_delete", rq, gate.resp, "gate")
               /\ UNCHANGED <<pc, loc>>
          ELSE IF rows = <<>>
          THEN /\ out' = Respond("group_delete", rq,
                           SendError(StatusNotFound, "NOT_FOUND", "Group not found"), "handler")
               /\ UNCHANGED <<pc, loc>>
          ELSE IF ~IsMember(rows, user)
          THEN /\ out' = Respond("group_delete", rq,
                           SendError(StatusForbidden, "FORBIDDEN",
                                     "Not authorized to delete this group"), "handler")
               /\ UNCHANGED <<pc, loc>>
          ELSE /\ pc' = [pc EXCEPT ![w] = "group_delete"]
               /\ loc' = [loc EXCEPT ![w] = [rq |-> rq, rows |-> rows, i |-> 1]]
               /\ UNCHANGED out

\* Whether a Groups().Delete(id) ends the row loop.  The store reports NotFound
\* when the DELETE affected no row; the loop passes over NotFound, so only a
\* driver error (execFails) ends it.
\* (Fault variant: the loop returning on NotFound too.)
DeleteRowFailsWhenGone(id, execFails) == execFails \/ ~GroupRowExists(id)
DeleteRowFails(id, execFails) == execFails

\* One Groups().Delete(g.ID) of the row loop; after the last row, the response.
GroupDeleteRow(w, execFails) ==
    /\ out = NoResponse
    /\ pc[w] = "group_delete"
    /\ UNCHANGED <<users, nextGroup, nextQuote, now, jwtHours>>
    /\ LET g == loc[w].rows[loc[w].i]
           last == loc[w].i = Len(loc[w].rows)
       IN IF DeleteRowFails(g.id, execFails)
          THEN /\ out' = Respond("group_delete", loc[w].rq,
                           SendError(StatusInternalServerError, "DATABASE_ERROR",
                                     "Failed to delete group"), "handler")
               /\ pc' = [pc EXCEPT ![w] = "idle"]
               /\ loc' = [loc EXCEPT ![w] = None]
               /\ UNCHANGED <<groups, quotes>>
          ELSE /\ groups' = StoreGroupDelete(g.id)
               /\ quotes' = QuotesAfterGroupDelete(g.id)
               /\ IF last
                  THEN /\ out' = Respond("group_delete", loc[w].rq, SendSuccess(StatusOK, None), "handler")
                       /\ pc' = [pc EXCEPT ![w] = "idle"]
                       /\ loc' = [loc EXCEPT ![w] = None]
                  ELSE /\ loc' = [loc EXCEPT ![w].i = @ + 1]
                       /\ UNCHANGED <<pc, out>>

(***************************************************************************)
(* The group endpoints over a store that holds registered users.           *)
(***************************************************************************)
\* 9 is the id of no user; 1 is the user that is not authenticated.
CreateGroupRequests ==
    {[name |-> "n1", group_id |-> "g1", members |-> <<2>>],
     [name |-> "n1", group_id |-> "g1", members |-> <<2, 3>>],
     [name |-> "n1", group_id |-> "g2", members |-> <<3>>],
     [name |-> "n1", group_id |-> "g1", members |-> <<2, 9>>],
     [name |-> "n1", group_id |-> "g1", members |-> <<1, 9>>],
     [name |-> "", group_id |-> "g1", members |-> <<2>>]}

UpdateGroupRequests ==
    {[name |-> "n2", members |-> <<2>>],
     [name |-> "n2", members |-> <<2, 9>>],
     [name |-> "n2", members |-> <<1, 9>>],
     [name |-> "", members |-> <<2>>]}

\* One unexpired token per stored user that may log in.
MemberHeaders == {Bearer(GenerateTokenAt(u, now)) : u \in {v \in users : v.authenticated}}

InitGroups ==
    /\ users = SeedUsers
    /\ groups = <<>>
    /\ quotes = <<>>
    /\ nextGroup = 0
    /\ nextQuote = 0
    /\ now = 0
    /\ jwtHours = 1
    /\ pc = [w \in Workers |-> "idle"]
    /\ loc = [w \in Workers |-> None]
    /\ out = NoResponse

NextGroups ==
    \/ \E hdr \in MemberHeaders, req \in CreateGroupRequests, failAt \in 0..MaxGroupRows :
          GroupCreate(hdr, req, failAt)
    \/ \E hdr \in MemberHeaders : GroupList(hdr)
    \/ \E hdr \in MemberHeaders, groupID \in GroupKeys, req \in UpdateGroupRequests :
          GroupUpdateStart(1, hdr, groupID, req)
    \/ \E execFails \in BOOLEAN : GroupUpdateRow(1, execFails)
    \/ GroupUpdateFinish(1)
    \/ \E hdr \in MemberHeaders, groupID \in GroupKeys : GroupDeleteStart(1, hdr, groupID)
    \/ \E execFails \in BOOLEAN : GroupDeleteRow(1, execFails)
    \/ Deliver

SpecGroups == InitGroups /\ [][NextGroups]_vars

(***************************************************************************)
(* Every route registered behind Authenticate (AuthHandler.SetupRoutes,    *)
(* QuoteHandler.SetupRoutes, GroupHandler.SetupRoutes), called with every  *)
(* kind of Authorization header, over a store with one user that may log   *)
(* in and one that may not.                                                *)
(***************************************************************************)
InitGate ==
    /\ users = {SeedUser, RegisteredUser(2, "b@x")}
    /\ groups = <<>>
    /\ quotes = <<>>
    /\ nextGroup = 0
    /\ nextQuote = 0
    /\ now = 0
    /\ jwtHours \in {0, 1}
    /\ pc = [w \in Workers |-> "idle"]
    /\ loc = [w \in Workers |-> None]
    /\ out = NoResponse

\* One body per route: what the gate lets through does not depend on the body.
GateCreateGroupRequest == [name |-> "n1", group_id |-> "g1", members |-> <<2>>]
GateUpdateGroupRequest == [name |-> "n1", members |-> <<2>>]
GateCreateQuoteRequest == [text |-> "t1", author |-> "x", group_id |-> "g1"]
GateUpdateQuoteRequest == [text |-> "t1", author |-> "x"]
GateListQuotesParams == [author |-> "", page |-> 1, limit |-> 10]

Next ==
    \/ \E hdr \in Headers : Me(hdr)
    \/ \E hdr \in Headers, execFails \in BOOLEAN : QuoteCreate(hdr, GateCreateQuoteRequest, execFails)
    \/ \E hdr \in Headers : QuoteList(hdr, GateListQuotesParams)
    \/ \E hdr \in Headers, pick \in 1..MaxQuotes : QuoteGetRandom(hdr, "", pick)
    \/ \E hdr \in Headers, id \in QuoteIDs, execFails \in BOOLEAN :
          QuoteUpdate(hdr, id, GateUpdateQuoteRequest, execFails)
    \/ \E hdr \in Headers, id \in QuoteIDs, execFails \in BOOLEAN : QuoteDelete(hdr, id, execFails)
    \/ \E hdr \in Headers, failAt \in 0..1 : GroupCreate(hdr, GateCreateGroupRequest, failAt)
    \/ \E hdr \in Headers : GroupList(hdr)
    \/ \E hdr \in Headers : GroupUpdateStart(1, hdr, "g1", GateUpdateGroupRequest)
    \/ \E execFails \in BOOLEAN : GroupUpdateRow(1, execFails)
    \/ GroupUpdateFinish(1)
    \/ \E hdr \in Headers : GroupDeleteStart(1, hdr, "g1")
    \/ \E execFails \in BOOLEAN : GroupDeleteRow(1, execFails)
    \/ Deliver

Spec == InitGate /\ [][Next]_vars

(***************************************************************************)
(* Properties.  A response is judged in the state that holds it (no step   *)
(* but Deliver is enabled there, so the store is the one the handler left) *)
(* or over the step that writes it.                                        *)
(***************************************************************************)
\* The user a Bearer token names.
CallerOf(hdr) == UserGetByID(hdr.token.uid)

\* The member set of a group key: the member ids of the rows sharing it.
MembersOf(groupID) ==
    {groups[i].member_id : i \in {j \in 1..Len(groups) : groups[j].group_id = groupID}}

\* The step writes the response of endpoint ep after the gate let the request in.
HandlerResponds(ep) == out = NoResponse /\ out'.ep = ep /\ out'.by = "handler"

\* C1: every quote that the list and the random endpoint return to an
\* authenticated user belongs to a group in which that user has a membership row.
C1_ReadsStayInCallersGroups ==
    (out.ep \in {"quote_list", "quote_random"} /\ out.resp.success) =>
        LET U == CallerOf(out.req.hdr)
            returned == IF out.ep = "quote_list" THEN Range(out.resp.data) ELSE {out.resp.data}
        IN \A q \in returned : U.id \in MembersOf(q.group_id)

\* C2 as stated: a quote creation by an authenticated user U in group key G
\* succeeds and stores the quote if and only if U is in the member set of G, and
\* is answered FORBIDDEN otherwise, whatever the quote's content.
C2_CreateIffMember ==
    (out.ep = "quote_create" /\ out.by = "handler") =>
        LET U == CallerOf(out.req.hdr)
            body == out.req.body
        IN IF U.id \in MembersOf(body.group_id)
           THEN /\ out.resp.status = StatusCreated
                /\ QuoteRowByID(quotes, out.resp.data.id) # None
           ELSE out.resp.code = "FORBIDDEN"

\* C2 amended: a quote creation by a user outside the member set of G stores
\* nothing, whatever the content, and is answered INVALID_INPUT when the body
\* fails validation, else NOT_FOUND when no row carries G, else FORBIDDEN; a
\* creation by a member with a valid body appends exactly that quote and is
\* answered 201, unless the insert fails (DATABASE_ERROR, nothing stored).
C2_CreateStoresOnlyForMembers ==
    [][HandlerResponds("quote_create") =>
        LET U == CallerOf(out'.req.hdr)
            body == out'.req.body
            M == MembersOf(body.group_id)
            valid == body.text # "" /\ body.author # "" /\ body.group_id # ""
        IN IF U.id \notin M
           THEN /\ quotes' = quotes
                /\ out'.resp.code = IF ~valid THEN "INVALID_INPUT"
                                    ELSE IF M = {} THEN "NOT_FOUND" ELSE "FORBIDDEN"
           ELSE IF ~valid
           THEN quotes' = quotes /\ out'.resp.code = "INVALID_INPUT"
           ELSE \/ /\ out'.resp.status = StatusCreated
                   /\ Len(quotes') = Len(quotes) + 1
                   /\ SubSeq(quotes', 1, Len(quotes)) = quotes
                   /\ LET q == quotes'[Len(quotes')] IN
                        /\ q.text = body.text /\ q.author = body.author
                        /\ q.uploader_id = U.id /\ q.group_id = body.group_id
                \/ /\ out'.resp.code = "DATABASE_ERROR"
                   /\ quotes' = quotes
    ]_vars

\* C2 witness: with a member's quote stored, a non-member's valid creation
\* request has just been answered FORBIDDEN.
C2_NonMemberRefused ==
    /\ quotes # <<>>
    /\ out.ep = "quote_create"
    /\ out.resp.code = "FORBIDDEN"
    /\ out.req.body.text # ""

\* C3: an update or delete of a stored quote by an authenticated user who is not
\* its uploader is answered 403 FORBIDDEN and leaves the quote table unchanged,
\* whatever the request body.
C3_OnlyUploaderChanges ==
    [][(HandlerResponds("quote_update") \/ HandlerResponds("quote_delete")) =>
        LET U == CallerOf(out'.req.hdr)
            Q == QuoteRowByID(quotes, out'.req.id)
        IN (Q # None /\ Q.uploader_id # U.id) =>
              /\ out'.resp.status = StatusForbidden
              /\ out'.resp.code = "FORBIDDEN"
              /\ quotes' = quotes
    ]_vars

\* C3 witness: an update with a body that fails validation, sent by a user who
\* did not upload the stored quote, has just been answered FORBIDDEN.
C3_StrangerRefused ==
    /\ out.ep = "quote_update"
    /\ out.resp.code = "FORBIDDEN"
    /\ out.req.body.text = ""
    /\ QuoteRowByID(quotes, out.req.id) # None

\* C9: the quote a successful creation returns is read back by id with the
\* text, author, uploader and group key of the request, and a stored quote reads
\* back the same until a successful update or delete of it by its uploader.
C9_CreateThenGetByID ==
    [][/\ (out = NoResponse /\ out'.ep = "quote_create" /\ out'.resp.success) =>
            LET got == QuoteRowByID(quotes', out'.resp.data.id)
                body == out'.req.body
            IN /\ got # None
               /\ got.text = body.text /\ got.author = body.author
               /\ got.uploader_id = CallerOf(out'.req.hdr).id
               /\ got.group_id = body.group_id
               /\ out'.resp.data.text = body.text /\ out'.resp.data.author = body.author
       /\ \A id \in 1..nextQuote :
            LET q == QuoteRowByID(quotes, id) IN
            (q # None /\ QuoteRowByID(quotes', id) # q) =>
               /\ out'.ep \in {"quote_update", "quote_delete"}
               /\ out'.resp.success
               /\ out'.req.id = id
               /\ CallerOf(out'.req.hdr).id = q.uploader_id
    ]_vars

\* C9 witness: both quotes of a full table read back by id while a creation's
\* 201 is on the wire.
C9_CreatedQuoteReadable ==
    /\ out.ep = "quote_create"
    /\ out.resp.success
    /\ Len(quotes) >= 2
    /\ QuoteRowByID(quotes, out.resp.data.id).text = out.req.body.text

\* The strict gate's conditions on a request, in the order it evaluates them.
HeaderPresent(hdr) == hdr.given
HeaderWellFormed(hdr) == hdr.nparts = 2 /\ hdr.scheme = "Bearer"
TokenVerifies(tok) ==
    /\ tok.form = "jwt"
    /\ tok.alg \in {"HS256", "HS384", "HS512"}
    /\ tok.key = JWTSecret
    /\ now < tok.exp
UserExists(tok) == \E u \in users : u.id = tok.uid
UserFlagged(tok) == \A u \in users : u.id = tok.uid => u.authenticated

GoodCredential(hdr) ==
    /\ HeaderPresent(hdr) /\ HeaderWellFormed(hdr) /\ TokenVerifies(hdr.token)
    /\ UserExists(hdr.token) /\ UserFlagged(hdr.token)

\* The rejection of the first gate condition a request fails.
FirstFailure(hdr, resp) ==
    /\ resp.status = StatusUnauthorized
    /\ resp.data = None
    /\ IF ~HeaderPresent(hdr)
       THEN resp.code = "UNAUTHORIZED" /\ resp.message = "Missing authorization header"
       ELSE IF ~HeaderWellFormed(hdr)
       THEN resp.code = "UNAUTHORIZED" /\ resp.message = "Invalid authorization format"
       ELSE IF ~TokenVerifies(hdr.token)
       THEN resp.code = "INVALID_TOKEN"
       ELSE IF ~UserExists(hdr.token)
       THEN resp.code = "UNAUTHORIZED" /\ resp.message = "User not found"
       ELSE resp.code = "UNAUTHORIZED" /\ resp.message = "User not authenticated"

C5_ExpiredDistinctFromInvalid ==
    (/\ out.ep = "me"
     /\ HeaderPresent(out.req.hdr) /\ HeaderWellFormed(out.req.hdr)
     /\ out.req.hdr.token.form = "jwt"
     /\ out.req.hdr.token.alg = "HS256"
     /\ out.req.hdr.token.key = JWTSecret
     /\ out.req.hdr.token.exp <= now) =>
        /\ ~out.resp.success
        /\ out.resp # SendError(StatusUnauthorized, "INVALID_TOKEN", "Invalid token")

\* C6: a valid registration whose email belongs to a stored user when the
\* request is looked up is answered 409 ALREADY_EXISTS with no token, and the
\* user table is unchanged; no registration passes the lookup with a stored email.
C6_TakenEmailConflicts ==
    [][/\ (/\ out = NoResponse /\ out'.ep = "register" /\ pc' = pc
           /\ ValidRegisterRequest(out'.req)
           /\ \E u \in users : u.email = out'.req.email) =>
              /\ out'.resp.status = StatusConflict
              /\ out'.resp.code = "ALREADY_EXISTS"
              /\ out'.resp.data = None
              /\ users' = users
       /\ \A w \in Workers :
            (pc[w] = "idle" /\ pc'[w] = "register_create") =>
               \A u \in users : u.email # loc'[w].req.email
    ]_vars

\* C6 witness: a registration with the email of a user registered earlier has
\* just been answered 409.
C6_SecondRegistrationRefused ==
    /\ out.ep = "register"
    /\ out.resp.status = StatusConflict
    /\ out.req.email # SeedUser.email
    /\ \E u \in users : u.email = out.req.email

\* C7: no two stored users share an email, whatever the interleaving of
\* registrations; users are never removed, and a registration is answered 201
\* only by the step that stores the one user with its email, which no user had.
C7_EmailsUnique ==
    /\ [](\A u1, u2 \in users : u1.email = u2.email => u1 = u2)
    /\ [][/\ users \subseteq users'
          /\ (out = NoResponse /\ out'.ep = "register" /\ out'.resp.status = StatusCreated) =>
                /\ \A u \in users : u.email # out'.req.email
                /\ Cardinality({u \in users' : u.email = out'.req.email}) = 1
          /\ users' # users => (out'.ep = "register" /\ out'.resp.status = StatusCreated)
      ]_vars

\* C7 witness: of two registrations that both passed the lookup with the same
\* email, one stored the user and the other has just been refused by the insert.
C7_RaceLoserRefused ==
    /\ out.ep = "register"
    /\ out.resp.code = "DATABASE_ERROR"
    /\ \E u \in users : u.email = out.req.email

\* C8: a login with an email no user has and a login with a stored email and
\* another password get the same response, 401 INVALID_CREDENTIALS with the
\* same message.
C8_LoginFailuresAlike ==
    (out.ep = "login" /\ ValidAuthRequest(out.req)) =>
        LET known == {u \in users : u.email = out.req.email} IN
        (known = {} \/ \A u \in known : u.hash # HashPassword(out.req.password)) =>
            out.resp = SendError(StatusUnauthorized, "INVALID_CREDENTIALS",
                                 "Invalid email or password")

\* C8 witness: a login with the email of a registered user and the wrong
\* password has just been refused, while another email is still unregistered.
C8_WrongPasswordRefused ==
    /\ out.ep = "login"
    /\ out.resp.code = "INVALID_CREDENTIALS"
    /\ \E u \in users : u.email = out.req.email /\ u.authenticated
    /\ \E e \in {"b@x", "c@x"} : \A u \in users : u.email # e

\* The step answers a group update or delete on the request's arrival.
GroupRequestAnswered ==
    /\ HandlerResponds("group_update") \/ HandlerResponds("group_delete")
    /\ pc' = pc

\* C10 as stated: a group update or delete on key G by an authenticated user
\* with no membership row under G is answered FORBIDDEN and changes no row.
C10_NonMemberForbidden ==
    [][(GroupRequestAnswered /\ CallerOf(out'.req.hdr).id \notin MembersOf(out'.req.id)) =>
          /\ out'.resp.code = "FORBIDDEN"
          /\ groups' = groups
    ]_vars

\* C10 amended: a group update or delete on key G by an authenticated user with
\* no membership row under G changes no row and is answered INVALID_INPUT when
\* an update's body fails validation, else NOT_FOUND when no row carries G, else
\* 403 FORBIDDEN; only a member's request reaches the row loop.
C10_NonMemberChangesNothing ==
    [][/\ (GroupRequestAnswered /\ CallerOf(out'.req.hdr).id \notin MembersOf(out'.req.id)) =>
            /\ groups' = groups
            /\ IF out'.ep = "group_update" /\
                  (out'.req.body.name = "" \/ Len(out'.req.body.members) < 1)
               THEN out'.resp.code = "INVALID_INPUT"
               ELSE IF MembersOf(out'.req.id) = {}
               THEN out'.resp.code = "NOT_FOUND"
               ELSE out'.resp.status = StatusForbidden /\ out'.resp.code = "FORBIDDEN"
       /\ \A w \in Workers :
            (pc[w] = "idle" /\ pc'[w] \in {"group_update", "group_delete"}) =>
               CallerOf(loc'[w].rq.hdr).id \in MembersOf(loc'[w].rq.id)
    ]_vars

\* C10 witness: a delete of a group that has rows, sent by a user with no row
\* under its key, has just been answered FORBIDDEN.
C10_OutsiderRefused ==
    /\ out.ep = "group_delete"
    /\ out.resp.code = "FORBIDDEN"
    /\ MembersOf(out.req.id) # {}
    /\ CallerOf(out.req.hdr).id \notin MembersOf(out.req.id)

\* The step is a store call of worker w's group delete (update) row loop.
DeleteLoopStep(w) == pc[w] = "group_delete" /\ loc'[w] # loc[w]
UpdateLoopStep(w) == pc[w] = "group_update" /\ loc'[w] # loc[w]

\* The ids of the rows a request read when it arrived.
RowIDs(rows) == {rows[j].id : j \in 1..Len(rows)}

\* C11: every store call of a group delete removes at most rows the request
\* read under its key and alters or removes no row of another key; when the
\* delete is answered with success, none of the rows it read is left, and a row
\* still under the key was inserted after the request read the key's rows (so
\* with nothing interleaved no row shares the key).
C11_DeleteRemovesExactlyTheGroup ==
    [][\A w \in Workers : DeleteLoopStep(w) =>
          LET key == loc[w].rq.id
              read == RowIDs(loc[w].rows)
              Other(r) == r.group_id # key
          IN /\ SelectSeq(groups', Other) = SelectSeq(groups, Other)
             /\ Range(groups') \subseteq Range(groups)
             /\ \A r \in Range(groups) \ Range(groups') : r.id \in read /\ r.group_id = key
             /\ (out'.ep = "group_delete" /\ out'.resp.success) =>
                   /\ \A r \in Range(groups') : r.id \notin read
                   /\ \A r \in Range(groups') :
                         r.group_id = key => \A id \in read : r.id > id
    ]_vars

\* C11 witness: a delete has just succeeded, at least two rows are gone, no row
\* shares the deleted key and a row of another key is still stored.
C11_GroupGoneOthersStay ==
    /\ out.ep = "group_delete"
    /\ out.resp.success
    /\ MembersOf(out.req.id) = {}
    /\ groups # <<>>
    /\ Len(groups) + 2 <= nextGroup

\* C12: when the store's delete of the k-th row a group delete read fails, the
\* request stops and answers 500 DATABASE_ERROR, the k-1 rows before it are
\* deleted and stay deleted, and the rows from k on are still stored.
C12_DeleteStopsAtFirstFailure ==
    [][\A w \in Workers :
          (DeleteLoopStep(w) /\ out'.ep = "group_delete" /\ ~out'.resp.success) =>
             LET k == loc[w].i
                 rows == loc[w].rows
             IN /\ out'.resp.status = StatusInternalServerError
                /\ out'.resp.code = "DATABASE_ERROR"
                /\ pc'[w] = "idle"
                /\ groups' = groups
                /\ \A j \in 1..(k - 1) : rows[j].id \notin RowIDs(groups')
                /\ \A j \in k..Len(rows) : rows[j] \in Range(groups')
    ]_vars

\* C12 witness: a delete has just failed after removing its caller's own row:
\* the caller, a member when the request arrived, has no row under the key any
\* more, and another member's row is still there.
C12_HalfDeletedGroup ==
    /\ out.ep = "group_delete"
    /\ out.resp.code = "DATABASE_ERROR"
    /\ MembersOf(out.req.id) # {}
    /\ CallerOf(out.req.hdr).id \notin MembersOf(out.req.id)

\* The member list a creation inserts rows for: the requested list, then the
\* creator when the list does not name the creator.
RequestedThenCreator(L, U) ==
    IF \E k \in 1..Len(L) : L[k] = U.id THEN L ELSE L \o <<U.id>>

\* The rows from position first on are rows of the request body for the
\* members given, in order.
RowsCarry(table, first, members, n, body) ==
    \A k \in 1..n :
        /\ table[first + k].member_id = members[k]
        /\ table[first + k].group_id = body.group_id
        /\ table[first + k].name = body.name

\* C13: a successful group creation by U with member list L appends one row per
\* entry of L, in order, then one row for U when U does not occur in L and none
\* when U does; every row carries the requested key and name, so len(L) or
\* len(L)+1 rows are added.
C13_CreateInsertsOneRowPerMember ==
    [][(HandlerResponds("group_create") /\ out'.resp.status = StatusCreated) =>
          LET U == CallerOf(out'.req.hdr)
              body == out'.req.body
              L == body.members
              n == Len(groups') - Len(groups)
          IN /\ n = IF \E k \in 1..Len(L) : L[k] = U.id THEN Len(L) ELSE Len(L) + 1
             /\ SubSeq(groups', 1, Len(groups)) = groups
             /\ RowsCarry(groups', Len(groups), RequestedThenCreator(L, U), n, body)
    ]_vars

\* C13 witness: a creation whose member list does not name its creator has
\* just succeeded with one row more than the list has entries.
C13_CreatorAdded ==
    /\ out.ep = "group_create"
    /\ out.resp.status = StatusCreated
    /\ \A k \in 1..Len(out.req.body.members) :
          out.req.body.members[k] # CallerOf(out.req.hdr).id
    /\ Len(out.resp.data.members) = Len(out.req.body.members) + 1
    /\ CallerOf(out.req.hdr).id \in MembersOf(out.req.body.group_id)

\* C14: a store failure in the insert loop of a creation or in the update loop
\* of a name update ends the request with 500 DATABASE_ERROR; the rows inserted
\* (updated) before the failing call stay, and the failing row and the rows
\* after it are not inserted (keep the name they were read with).
C14_LoopsStopAtFirstFailure ==
    [][/\ (HandlerResponds("group_create") /\ out'.resp.code = "DATABASE_ERROR") =>
            LET U == CallerOf(out'.req.hdr)
                body == out'.req.body
                members == RequestedThenCreator(body.members, U)
                n == Len(groups') - Len(groups)
            IN /\ out'.resp.status = StatusInternalServerError
               /\ 0 <= n /\ n < Len(members)
               /\ SubSeq(groups', 1, Len(groups)) = groups
               /\ RowsCarry(groups', Len(groups), members, n, body)
       /\ \A w \in Workers :
            (/\ UpdateLoopStep(w) /\ loc[w].i <= Len(loc[w].rows)
             /\ out'.ep = "group_update" /\ ~out'.resp.success) =>
               LET k == loc[w].i
                   rows == loc[w].rows
               IN /\ out'.resp.status = StatusInternalServerError
                  /\ out'.resp.code = "DATABASE_ERROR"
                  /\ pc'[w] = "idle"
                  /\ groups' = groups
                  /\ \A j \in 1..(k - 1) :
                        \E r \in Range(groups') :
                           r.id = rows[j].id /\ r.name = loc[w].rq.body.name
                  /\ \A j \in k..Len(rows) : rows[j] \in Range(groups')
    ]_vars

\* C14 witness: a name update has just failed part-way: under its key one row
\* carries the new name and another still the old one.
C14_HalfRenamedGroup ==
    /\ out.ep = "group_update"
    /\ out.resp.code = "DATABASE_ERROR"
    /\ \E r1, r2 \in Range(groups) :
          /\ r1.group_id = out.req.id /\ r2.group_id = out.req.id
          /\ r1.name = out.req.body.name /\ r2.name # out.req.body.name

\* C15: no store call of a name update changes a row of another key or adds or
\* removes a row; when the update is answered with success and the rows under
\* the key are the rows the request read (nothing interleaved on the key),
\* every row under the key carries the new name.
C15_RenameReachesEveryRow ==
    [][\A w \in Workers : UpdateLoopStep(w) =>
          LET key == loc[w].rq.id
              Other(r) == r.group_id # key
              Same(r) == r.group_id = key
          IN /\ SelectSeq(groups', Other) = SelectSeq(groups, Other)
             /\ RowIDs(groups') = RowIDs(groups)
             /\ (/\ out'.ep = "group_update" /\ out'.resp.success
                 /\ RowIDs(SelectSeq(groups', Same)) = RowIDs(loc[w].rows)) =>
                   \A r \in Range(groups') : Same(r) => r.name = loc[w].rq.body.name
    ]_vars

\* C15 witness: a name update of a group with two rows has just succeeded, both
\* rows carry the new name and a row of another key carries another name.
C15_GroupRenamed ==
    /\ out.ep = "group_update"
    /\ out.resp.success
    /\ Cardinality({r \in Range(groups) : r.group_id = out.req.id}) >= 2
    /\ \A r \in Range(groups) : r.group_id = out.req.id => r.name = out.req.body.name
    /\ \E r \in Range(groups) : r.group_id # out.req.id /\ r.name # out.req.body.name

(***************************************************************************)
(* Two name updates of one group served at once, by two of its members,    *)
(* while a third request adds a row under the key; no store call fails.    *)
(***************************************************************************)
RaceGroups == <<GroupRow(1, "g1", "n1", 2), GroupRow(2, "g1", "n1", 3)>>

\* Worker 1 serves user 2 renaming to n2, worker 2 serves user 3 renaming to n3.
RaceHeader(w) == Bearer(GenerateTokenAt(UserGetByID(w + 1), now))
RaceUpdate(w) == [name |-> IF w = 1 THEN "n2" ELSE "n3", members |-> <<2>>]
RaceCreate == [name |-> "n1", group_id |-> "g1", members |-> <<2>>]

InitRace ==
    /\ users = SeedUsers
    /\ groups = RaceGroups
    /\ quotes = <<>>
    /\ nextGroup = Len(RaceGroups)
    /\ nextQuote = 0
    /\ now = 0
    /\ jwtHours = 1
    /\ pc = [w \in Workers |-> "idle"]
    /\ loc = [w \in Workers |-> None]
    /\ out = NoResponse

NextRace ==
    \/ \E w \in Workers : GroupUpdateStart(w, RaceHeader(w), "g1", RaceUpdate(w))
    \/ \E w \in Workers : GroupUpdateRow(w, FALSE)
    \/ \E w \in Workers : GroupUpdateFinish(w)
    \/ GroupCreate(RaceHeader(1), RaceCreate, 0)
    \/ Deliver

SpecRace == InitRace /\ [][NextRace]_vars

\* C16: a name update reads the rows of its key once and then writes row by
\* row: each store call of its loop changes only the one row it is at, to the
\* request's own name, whatever other requests are doing, and the final re-read
\* writes nothing; nothing makes the rows of a key change together, so two
\* interleaved updates and a row added after the read leave different names.
C16_RenameWritesRowByRow ==
    [][\A w \in Workers : UpdateLoopStep(w) =>
          /\ pc'[w] = "group_update" =>
                loc'[w].rows = loc[w].rows /\ loc'[w].rq = loc[w].rq
          /\ Len(groups') = Len(groups)
          /\ \A i \in 1..Len(groups) :
                groups'[i] # groups[i] =>
                   /\ loc[w].i <= Len(loc[w].rows)
                   /\ groups[i].id = loc[w].rows[loc[w].i].id
                   /\ groups'[i] = [groups[i] EXCEPT !.name = loc[w].rq.body.name,
                                                     !.updated_at = now]
    ]_vars

\* C16 witness: both updates have completed with success (no store call fails
\* here and no request is in progress), and under the one key a row carries the
\* first request's name, a row the second's, and the row added after the reads
\* the name it was created with.
C16_NamesDivergeAfterBothSucceed ==
    /\ \A w \in Workers : pc[w] = "idle"
    /\ out.ep = "group_update"
    /\ out.resp.success
    /\ \E r1, r2, r3 \in Range(groups) :
          /\ r1.group_id = "g1" /\ r2.group_id = "g1" /\ r3.group_id = "g1"
          /\ r1.id \in RowIDs(RaceGroups) /\ r1.name = RaceUpdate(1).name
          /\ r2.id \in RowIDs(RaceGroups) /\ r2.name = RaceUpdate(2).name
          /\ r3.id \notin RowIDs(RaceGroups) /\ r3.name = RaceCreate.name

(***************************************************************************)
(* The list endpoint over a store that holds more quotes than the default  *)
(* limit, created one per clock unit by two authors in turn.               *)
(***************************************************************************)
ListSeedQuotes ==
    [i \in 1..SeedQuoteCount |->
        [id |-> i, text |-> "t1", author |-> IF i % 2 = 1 THEN "x" ELSE "y",
         uploader_id |-> 3, group_id |-> "g1", created_at |-> i, updated_at |-> i]]

\* Query parameters: pages and limits below, at, inside and above the accepted
\* ranges, and the largest page an int holds.
ListPages == {-1, 0, 1, 2, 3, MaxInt}
ListLimits == {-1, 0, 1, 5, 10, 11, 50, 51, 999}
ListRequests == [author : {"", "x", "z"}, page : ListPages, limit : ListLimits]

InitList ==
    /\ users = SeedUsers
    /\ groups = SeedGroups
    /\ quotes = ListSeedQuotes
    /\ nextGroup = Len(SeedGroups)
    /\ nextQuote = SeedQuoteCount
    /\ now = SeedQuoteCount
    /\ jwtHours = 1
    /\ pc = [w \in Workers |-> "idle"]
    /\ loc = [w \in Workers |-> None]
    /\ out = NoResponse

NextList ==
    \/ \E hdr \in SessionHeaders, params \in ListRequests : QuoteList(hdr, params)
    \/ Deliver

SpecList == InitList /\ [][NextList]_vars

\* C17: the list endpoint answers a request as it answers the request with
\* page 1 in place of a page below 1 and limit 10 in place of a limit below 1 or
\* above 50, every other page and limit taken as sent; it never returns more
\* quotes than that limit.
C17_ListClampsPaging ==
    (out.ep = "quote_list" /\ out.by = "handler") =>
        LET p == out.req.body
            page == IF p.page < 1 THEN 1 ELSE p.page
            limit == IF p.limit < 1 \/ p.limit > 50 THEN 10 ELSE p.limit
        IN /\ out.resp.success
           /\ out.resp.data =
                 ToQuoteResponses(StoreList([author |-> p.author, page |-> page, limit |-> limit]))
           /\ Len(out.resp.data) <= limit

\* C17 witness: a request with limit 999 has just been answered with the ten
\* newest of more than ten stored quotes.
C17_HugeLimitGetsTen ==
    /\ out.ep = "quote_list"
    /\ out.by = "handler"
    /\ out.req.body.limit = 999
    /\ out.req.body.author = ""
    /\ Len(quotes) > 10
    /\ Len(out.resp.data) = 10

\* C18: for the clamped page and limit, the list endpoint returns exactly the
\* quotes matching the author filter (all when it is empty) whose rank by
\* creation time, newest first, lies in (page-1)*limit+1 .. page*limit, in rank
\* order: the empty sequence when the page lies beyond the last quote.
C18_ListReturnsThePage ==
    (out.ep = "quote_list" /\ out.by = "handler") =>
        LET p == out.req.body
            page == IF p.page < 1 THEN 1 ELSE p.page
            limit == IF p.limit < 1 \/ p.limit > 50 THEN 10 ELSE p.limit
            off == (page - 1) * limit
            Matching == {i \in 1..Len(quotes) : p.author = "" \/ quotes[i].author = p.author}
            Rank(i) == 1 + Cardinality({j \in Matching :
                                           quotes[j].created_at > quotes[i].created_at})
            Page == {i \in Matching : off < Rank(i) /\ Rank(i) <= off + limit}
        IN /\ out.resp.success
           /\ Len(out.resp.data) = Cardinality(Page)
           /\ \A i \in Page : out.resp.data[Rank(i) - off].id = quotes[i].id

(***************************************************************************)
(* The callers of the read-many store operations over a store with one     *)
(* group of one member: a second user has no row, two keys have none, and  *)
(* a delete is served while an update of the same group is in progress.    *)
(***************************************************************************)
ReadManyGroups == LET OfG2(r) == r.group_id = "g2" IN SelectSeq(SeedGroups, OfG2)

InitReadMany ==
    /\ users = SeedUsers
    /\ groups = ReadManyGroups
    /\ quotes = <<>>
    /\ nextGroup = Len(SeedGroups)
    /\ nextQuote = 0
    /\ now = 0
    /\ jwtHours = 1
    /\ pc = [w \in Workers |-> "idle"]
    /\ loc = [w \in Workers |-> None]
    /\ out = NoResponse

NextReadMany ==
    \/ \E hdr \in MemberHeaders : GroupList(hdr)
    \/ \E hdr \in MemberHeaders, req \in CreateQuoteRequests, execFails \in BOOLEAN :
          QuoteCreate(hdr, req, execFails)
    \/ \E hdr \in MemberHeaders, groupID \in GroupKeys, req \in UpdateGroupRequests :
          GroupUpdateStart(1, hdr, groupID, req)
    \/ \E execFails \in BOOLEAN : GroupUpdateRow(1, execFails)
    \/ GroupUpdateFinish(1)
    \/ \E hdr \in MemberHeaders, groupID \in GroupKeys : GroupDeleteStart(2, hdr, groupID)
    \/ \E execFails \in BOOLEAN : GroupDeleteRow(2, execFails)
    \/ Deliver

SpecReadMany == InitReadMany /\ [][NextReadMany]_vars

\* The step answers GET /groups for a caller that has no row.
ListByMemberFindsNothing ==
    /\ HandlerResponds("group_list")
    /\ \A r \in Range(groups) : r.member_id # CallerOf(out'.req.hdr).id

\* The step answers, on arrival, a request that passed validation and read the
\* rows of a key that has none: quote create, group update, group delete.
ListByGroupFindsNothing ==
    \/ /\ HandlerResponds("quote_create")
       /\ out'.req.body.text # "" /\ out'.req.body.author # "" /\ out'.req.body.group_id # ""
       /\ MembersOf(out'.req.body.group_id) = {}
    \/ /\ HandlerResponds("group_update") /\ pc' = pc
       /\ out'.req.body.name # "" /\ Len(out'.req.body.members) >= 1
       /\ MembersOf(out'.req.id) = {}
    \/ /\ HandlerResponds("group_delete") /\ pc' = pc
       /\ MembersOf(out'.req.id) = {}

\* The step answers a group update after its row loop, reading the rows of the
\* key again and finding none.
RereadFindsNothing ==
    /\ HandlerResponds("group_update")
    /\ \E w \in Workers : /\ pc[w] = "group_update"
                          /\ loc[w].i > Len(loc[w].rows)
                          /\ MembersOf(loc[w].rq.id) = {}

\* C19 as stated: whenever a handler's list-by-member or list-by-group read
\* finds no row, the handler answers with a success.
C19_NotFoundNeverSurfaced ==
    [][(ListByMemberFindsNothing \/ ListByGroupFindsNothing \/ RereadFindsNothing) =>
          out'.resp.success
    ]_vars

\* C19 amended: only the group list turns a read that finds no row into a
\* success, 200 with an empty list; quote create, group update and group delete
\* answer 404 NOT_FOUND "Group not found" and change no row, and a group update
\* whose re-read after the row loop finds no row answers 500 DATABASE_ERROR.
C19_OnlyGroupListAnswersEmpty ==
    [][/\ ListByMemberFindsNothing =>
            /\ out'.resp.success /\ out'.resp.status = StatusOK
            /\ out'.resp.data = {}
       /\ ListByGroupFindsNothing =>
            /\ ~out'.resp.success
            /\ out'.resp.status = StatusNotFound
            /\ out'.resp.code = "NOT_FOUND"
            /\ out'.resp.message = "Group not found"
            /\ groups' = groups /\ quotes' = quotes
       /\ RereadFindsNothing =>
            /\ ~out'.resp.success
            /\ out'.resp.status = StatusInternalServerError
            /\ out'.resp.code = "DATABASE_ERROR"
    ]_vars

\* C19 witness: a user with no row has just been answered 200 with an empty
\* group list while another user's row is stored.
C19_EmptyListForRowlessUser ==
    /\ out.ep = "group_list"
    /\ out.by = "handler"
    /\ out.resp.success
    /\ out.resp.data = {}
    /\ groups # <<>>

(***************************************************************************)
(* A route behind OptionalAuth, next to registration: its handler answers  *)
(* with the user it finds in the context.                                  *)
(***************************************************************************)
\* A token signed with the server secret whose user id no row carries.
OrphanToken ==
    [form |-> "jwt", alg |-> "HS256", key |-> JWTSecret, uid |-> 9,
     email |-> "z@x", iat |-> now, exp |-> now + 1]

OptionalHeaders == Headers \cup {Bearer(OrphanToken)}

\* e.GET(path, handler, m.OptionalAuth): the middleware, then the handler.
OptionalRoute(hdr) ==
    /\ out = NoResponse
    /\ UNCHANGED <<users, groups, quotes, nextGroup, nextQuote, now, jwtHours, pc, loc>>
    /\ out' = Respond("optional", [hdr |-> hdr], SendSuccess(StatusOK, OptionalAuth(hdr)), "handler")

NextOptional ==
    \/ \E w \in Workers, req \in RegisterRequests : RegisterLookup(w, req)
    \/ \E w \in Workers, execFails \in BOOLEAN : RegisterCreate(w, execFails)
    \/ \E hdr \in OptionalHeaders : OptionalRoute(hdr)
    \/ Tick
    \/ Deliver

SpecOptional == InitAuth /\ [][NextOptional]_vars

\* C20: a request to a route behind the optional gate is always answered by the
\* handler, never by the gate, with the store untouched; the handler finds a
\* user in the context iff the header is present and well formed, the token
\* verifies and is unexpired, and its user exists with authenticated = true,
\* and that user is the token's; otherwise it finds none.
C20_OptionalGateNeverRejects ==
    [][(out = NoResponse /\ out'.ep = "optional") =>
          LET hdr == out'.req.hdr IN
          /\ out'.by = "handler"
          /\ out'.resp.success
          /\ UNCHANGED <<users, groups, quotes, pc, loc>>
          /\ IF GoodCredential(hdr)
             THEN /\ out'.resp.data \in users
                  /\ out'.resp.data.id = hdr.token.uid
             ELSE out'.resp.data = None
    ]_vars

\* C20 witness: a request carrying an expired token of a registered,
\* authenticated user has just been answered by the handler with no user in
\* the context.
C20_ExpiredTokenRunsAnonymous ==
    /\ out.ep = "optional"
    /\ out.by = "handler"
    /\ out.resp.data = None
    /\ out.req.hdr.given /\ out.req.hdr.nparts = 2 /\ out.req.hdr.scheme = "Bearer"
    /\ out.req.hdr.token.form = "jwt"
    /\ out.req.hdr.token.key = JWTSecret
    /\ out.req.hdr.token.alg = "HS256"
    /\ out.req.hdr.token.exp <= now
    /\ \E u \in users : u.id = out.req.hdr.token.uid /\ u.authenticated

\* The step answers a registration or a login with a token.
TokenHandedOut ==
    /\ HandlerResponds("register") \/ HandlerResponds("login")
    /\ out'.resp.success

\* The step answers GET /auth/me for a header carrying a token signed by the
\* server with HS256 and presented before its expiry.
UnexpiredTokenPresented ==
    /\ out = NoResponse
    /\ out'.ep = "me"
    /\ HeaderPresent(out'.req.hdr) /\ HeaderWellFormed(out'.req.hdr)
    /\ out'.req.hdr.token.form = "jwt"
    /\ out'.req.hdr.token.alg = "HS256"
    /\ out'.req.hdr.token.key = JWTSecret
    /\ now < out'.req.hdr.token.exp

\* C21: every user a registration stores has authenticated = true; the token a
\* registration or login hands out carries the id and email of the one stored
\* user with the request's email and expires TTL after its issue; such a token
\* presented before its expiry passes the strict gate and resolves to the user
\* with the token's id and email when that user's authenticated flag is true,
\* and is stopped by the gate with 401 when the flag is false.
C21_TokenResolvesToItsOwner ==
    [][/\ \A u \in users' \ users : u.authenticated
       /\ TokenHandedOut =>
            LET tok == out'.resp.data.token
                Owners == {u \in users' : u.email = out'.req.email}
            IN /\ Cardinality(Owners) = 1
               /\ \A u \in Owners : tok.uid = u.id /\ tok.email = u.email
                                    /\ out'.resp.data.user.id = u.id
               /\ tok.iat = now /\ tok.exp = now + jwtHours
               /\ tok.form = "jwt" /\ tok.alg = "HS256" /\ tok.key = JWTSecret
       /\ UnexpiredTokenPresented =>
            LET tok == out'.req.hdr.token
                Owners == {u \in users : u.id = tok.uid}
            IN /\ Cardinality(Owners) = 1
               /\ \A u \in Owners :
                    IF u.authenticated
                    THEN /\ out'.by = "handler" /\ out'.resp.success
                         /\ out'.resp.data.id = u.id
                         /\ out'.resp.data.email = tok.email
                         /\ u.email = tok.email
                    ELSE /\ out'.by = "gate"
                         /\ out'.resp.status = StatusUnauthorized
    ]_vars

\* C21 witness: a user stored by a registration has just been answered by
\* GET /auth/me with its own record, for an unexpired token issued to it, while
\* another user is stored.
C21_RegisteredUserSeesItself ==
    /\ out.ep = "me"
    /\ out.by = "handler"
    /\ out.resp.success
    /\ out.req.hdr.token.uid >= 2
    /\ out.resp.data.id = out.req.hdr.token.uid
    /\ now < out.req.hdr.token.exp
    /\ Cardinality(users) >= 2

(***************************************************************************)
(* The two gates, next to registration, presented with tokens whose header *)
(* names a signing method that is not HMAC.                                *)
(***************************************************************************)
\* Tokens with the claims and signature input of a token the server would issue
\* now, under another method in the header: none, and an asymmetric method.
OtherMethodTokens ==
    {[GenerateTokenAt(u, now) EXCEPT !.alg = a] : u \in users, a \in {"none", "ES256"}}

MethodHeaders == OptionalHeaders \cup {Bearer(t) : t \in OtherMethodTokens}

NextMethod ==
    \/ \E w \in Workers, req \in RegisterRequests : RegisterLookup(w, req)
    \/ \E w \in Workers, execFails \in BOOLEAN : RegisterCreate(w, execFails)
    \/ \E hdr \in MethodHeaders : Me(hdr)
    \/ \E hdr \in MethodHeaders : OptionalRoute(hdr)
    \/ Tick
    \/ Deliver

SpecMethod == InitAuth /\ [][NextMethod]_vars

\* The step answers a request whose bearer token names a method that is not
\* HMAC in its header.
OtherMethodPresented ==
    /\ out = NoResponse
    /\ out'.ep \in {"me", "optional"}
    /\ HeaderPresent(out'.req.hdr) /\ HeaderWellFormed(out'.req.hdr)
    /\ out'.req.hdr.token.form = "jwt"
    /\ out'.req.hdr.token.alg \notin {"HS256", "HS384", "HS512"}

\* C22: a token whose header names a method that is not HMAC is rejected by the
\* strict gate with 401 INVALID_TOKEN and gets no user attached by the optional
\* gate, whatever its claims and signature; neither gate touches the store.
C22_OnlyHMACAccepted ==
    [][OtherMethodPresented =>
          /\ UNCHANGED <<users, groups, quotes, pc, loc>>
          /\ IF out'.ep = "me"
             THEN /\ out'.by = "gate"
                  /\ out'.resp.status = StatusUnauthorized
                  /\ out'.resp.code = "INVALID_TOKEN"
             ELSE /\ out'.by = "handler"
                  /\ out'.resp.data = None
    ]_vars

\* C22 witness: the strict gate has just rejected a token naming an asymmetric
\* method that carries the server secret as key and the unexpired claims of a
\* stored user whose authenticated flag is true.
C22_AlgorithmConfusionStopped ==
    /\ out.ep = "me"
    /\ out.by = "gate"
    /\ out.resp.code = "INVALID_TOKEN"
    /\ out.req.hdr.token.form = "jwt"
    /\ out.req.hdr.token.alg \in {"RS256", "ES256"}
    /\ out.req.hdr.token.key = JWTSecret
    /\ now < out.req.hdr.token.exp
    /\ \E u \in users : u.id = out.req.hdr.token.uid /\ u.authenticated

\* C23: the group list of user U holds one entry per group key under which U
\* has a row and none for another key, and the member list of each entry names
\* one member per row stored under the entry's key, the rows of other users
\* included.
C23_ListShowsWholeGroups ==
    (out.ep = "group_list" /\ out.by = "handler") =>
        LET U == CallerOf(out.req.hdr)
            Keys == {r.group_id : r \in {q \in Range(groups) : q.member_id = U.id}}
        IN /\ {e.group_id : e \in out.resp.data} = Keys
           /\ Cardinality(out.resp.data) = Cardinality(Keys)
           /\ \A e \in out.resp.data :
                /\ Len(e.members) =
                      Cardinality({i \in 1..Len(groups) : groups[i].group_id = e.group_id})
                /\ {e.members[i] : i \in 1..Len(e.members)} =
                      {UsernameOf(m) : m \in MembersOf(e.group_id)}

(***************************************************************************)
(* Group creation under a key that already has a row: the group g2 of      *)
(* user 3, and the requests that check membership under its key.  Only an  *)
(* insert of the creation loop may fail.                                   *)
(***************************************************************************)
JoinGroups == <<GroupRow(1, "g2", "n1", 3)>>

JoinCreateRequests ==
    {[name |-> "n2", group_id |-> "g2", members |-> <<2>>],
     [name |-> "n2", group_id |-> "g2", members |-> <<3>>]}
JoinQuoteRequest == [text |-> "t1", author |-> "x", group_id |-> "g2"]
JoinUpdateRequest == [name |-> "n3", members |-> <<3>>]

InitJoin ==
    /\ users = SeedUsers
    /\ groups = JoinGroups
    /\ quotes = <<>>
    /\ nextGroup = Len(JoinGroups)
    /\ nextQuote = 0
    /\ now = 0
    /\ jwtHours = 1
    /\ pc = [w \in Workers |-> "idle"]
    /\ loc = [w \in Workers |-> None]
    /\ out = NoResponse

NextJoin ==
    \/ \E hdr \in MemberHeaders, req \in JoinCreateRequests, failAt \in 0..2 :
          GroupCreate(hdr, req, failAt)
    \/ \E hdr \in MemberHeaders : QuoteCreate(hdr, JoinQuoteRequest, FALSE)
    \/ \E hdr \in MemberHeaders : GroupUpdateStart(1, hdr, "g2", JoinUpdateRequest)
    \/ GroupUpdateRow(1, FALSE)
    \/ GroupUpdateFinish(1)
    \/ \E hdr \in MemberHeaders : GroupDeleteStart(1, hdr, "g2")
    \/ GroupDeleteRow(1, FALSE)
    \/ Deliver

SpecJoin == InitJoin /\ [][NextJoin]_vars

\* The step answers a valid group creation, every member of which is a stored
\* user with authenticated = true, for a key that has a row already.
CreateOnExistingKey ==
    /\ HandlerResponds("group_create")
    /\ out'.req.body.name # "" /\ out'.req.body.group_id # ""
    /\ Len(out'.req.body.members) >= 1
    /\ \A i \in 1..Len(out'.req.body.members) :
          \E u \in users : u.id = out'.req.body.members[i] /\ u.authenticated
    /\ MembersOf(out'.req.body.group_id) # {}

\* The step answers, on arrival, a request whose caller has a row under the
\* key it names: quote create, group update, group delete.
MemberAnswered ==
    \/ /\ HandlerResponds("quote_create")
       /\ CallerOf(out'.req.hdr).id \in MembersOf(out'.req.body.group_id)
    \/ /\ GroupRequestAnswered
       /\ CallerOf(out'.req.hdr).id \in MembersOf(out'.req.id)

\* C24: a group creation naming a key that already has rows is never refused
\* for it: unless an insert fails in the store it is answered 201, the stored
\* rows stay as they are, and one row is added under the key for every listed
\* member and for the caller; a caller that has a row under a key is never
\* answered FORBIDDEN by quote creation, group update or group delete for it.
C24_CreateJoinsExistingGroup ==
    [][/\ CreateOnExistingKey =>
            LET key == out'.req.body.group_id
                U == CallerOf(out'.req.hdr)
                Added == {groups'[i] : i \in (Len(groups) + 1)..Len(groups')}
            IN /\ out'.resp.code \in {"", "DATABASE_ERROR"}
               /\ SubSeq(groups', 1, Len(groups)) = groups
               /\ \A r \in Added : r.group_id = key
               /\ out'.resp.code = "" =>
                    /\ out'.resp.success /\ out'.resp.status = StatusCreated
                    /\ {r.member_id : r \in Added} =
                          Range(out'.req.body.members) \cup {U.id}
       /\ MemberAnswered => out'.resp.code # "FORBIDDEN"
    ]_vars

\* C24 witness: user 2, who had no row under g2, has just had a quote stored in
\* g2 while the row of its first member, user 3, is still stored.
C24_JoinedUserPosts ==
    /\ out.ep = "quote_create"
    /\ out.by = "handler"
    /\ out.resp.success
    /\ CallerOf(out.req.hdr).id = 2
    /\ out.req.body.group_id = "g2"
    /\ \E r \in Range(groups) : r.id = 1 /\ r.group_id = "g2" /\ r.member_id = 3
    /\ \E q \in Range(quotes) : q.group_id = "g2" /\ q.uploader_id = 2

\* The step belongs to a group update served by worker w: its checks, one store
\* call of its row loop, or its response.
UpdateStep(w) ==
    \/ pc[w] = "idle" /\ pc'[w] = "group_update"
    \/ UpdateLoopStep(w)
    \/ HandlerResponds("group_update")

\* C25: no step of a group update, successful or failed, adds or removes a row
\* or changes a row's id, group key, member id or created-at; the rows it
\* changes share the key of the request and differ in name and updated-at only.
C25_UpdateKeepsMembership ==
    [][\A w \in Workers : UpdateStep(w) =>
          /\ Len(groups') = Len(groups)
          /\ \A i \in 1..Len(groups) :
                /\ groups'[i] = [groups[i] EXCEPT !.name = groups'[i].name,
                                                  !.updated_at = groups'[i].updated_at]
                /\ groups'[i] # groups[i] =>
                      /\ pc[w] = "group_update"
                      /\ groups[i].group_id = loc[w].rq.id
    ]_vars

\* C25 witness: an update of a group with members 2 and 3 whose request lists
\* member 2 alone has just succeeded, and both rows are stored under the new name.
C25_UnlistedMemberStays ==
    /\ out.ep = "group_update"
    /\ out.resp.success
    /\ out.req.body.members = <<2>>
    /\ MembersOf(out.req.id) = {2, 3}
    /\ \A r \in Range(groups) : r.group_id = out.req.id => r.name = out.req.body.name

(***************************************************************************)
(* A quote posted to the group g2 of user 3, the deletion of that group,   *)
(* and the quote endpoints.                                                *)
(***************************************************************************)
OrphanQuotes ==
    <<[id |-> 1, text |-> "t1", author |-> "x", uploader_id |-> 3, group_id |-> "g2",
       created_at |-> 0, updated_at |-> 0]>>

InitOrphan ==
    /\ users = SeedUsers
    /\ groups = JoinGroups
    /\ quotes = OrphanQuotes
    /\ nextGroup = Len(JoinGroups)
    /\ nextQuote = Len(OrphanQuotes)
    /\ now = 0
    /\ jwtHours = 1
    /\ pc = [w \in Workers |-> "idle"]
    /\ loc = [w \in Workers |-> None]
    /\ out = NoResponse

NextOrphan ==
    \/ \E hdr \in MemberHeaders : GroupDeleteStart(1, hdr, "g2")
    \/ \E execFails \in BOOLEAN : GroupDeleteRow(1, execFails)
    \/ \E hdr \in MemberHeaders : QuoteList(hdr, GateListQuotesParams)
    \/ \E hdr \in MemberHeaders, pick \in 1..MaxQuotes : QuoteGetRandom(hdr, "", pick)
    \/ \E hdr \in MemberHeaders, req \in UpdateQuoteRequests, execFails \in BOOLEAN :
          QuoteUpdate(hdr, 1, req, execFails)
    \/ \E hdr \in MemberHeaders, execFails \in BOOLEAN : QuoteDelete(hdr, 1, execFails)
    \/ Tick
    \/ Deliver

SpecOrphan == InitOrphan /\ [][NextOrphan]_vars

\* The step belongs to a group delete served by worker w.
DeleteStep(w) ==
    \/ pc[w] = "idle" /\ pc'[w] = "group_delete"
    \/ DeleteLoopStep(w)
    \/ HandlerResponds("group_delete")

\* The step answers an update or delete of a stored quote sent by its uploader
\* (with a valid body, for an update).
UploaderAnswered ==
    /\ HandlerResponds("quote_update") \/ HandlerResponds("quote_delete")
    /\ \E q \in Range(quotes) : /\ q.id = out'.req.id
                                /\ q.uploader_id = CallerOf(out'.req.hdr).id
    /\ out'.ep = "quote_update" => (out'.req.body.text # "" /\ out'.req.body.author # "")

C27_UpdateChangesTextAndAuthorOnly ==
    [][(HandlerResponds("quote_update") /\ out'.resp.success) =>
          /\ Len(quotes') = Len(quotes)
          /\ \A i \in 1..Len(quotes) :
                IF quotes[i].id = out'.req.id
                THEN /\ quotes'[i] = [quotes[i] EXCEPT !.text = out'.req.body.text,
                                                       !.author = out'.req.body.author,
                                                       !.updated_at = quotes'[i].updated_at]
                     /\ out'.resp.data.id = quotes[i].id
                     /\ out'.resp.data.uploader_id = quotes[i].uploader_id
                     /\ out'.resp.data.group_id = quotes[i].group_id
                     /\ out'.resp.data.created_at = quotes[i].created_at
                ELSE quotes'[i] = quotes[i]
    ]_vars

\* C27 witness: one of two stored quotes has just been updated and the other
\* carries another text.
C27_OtherQuoteUntouched ==
    /\ out.ep = "quote_update"
    /\ out.by = "handler"
    /\ out.resp.success
    /\ Len(quotes) = 2
    /\ \E q \in Range(quotes) : q.id = out.req.id /\ q.text = out.req.body.text
    /\ \E q \in Range(quotes) : q.id # out.req.id /\ q.text # out.req.body.text

\* The member ids of a request that resolve to no user, and those that resolve
\* to a user with authenticated = false; the first id of the list in either set.
MissingMembers(members) ==
    {i \in 1..Len(members) : \A u \in users : u.id # members[i]}
UnauthenticatedMembers(members) ==
    {i \in 1..Len(members) : \E u \in users : u.id = members[i] /\ ~u.authenticated}
FirstBadMember(members) ==
    LET bad == MissingMembers(members) \cup UnauthenticatedMembers(members)
    IN CHOOSE i \in bad : \A j \in bad : i <= j

\* The step answers a group creation, or answers a group update on arrival, whose
\* members list holds an id that fails the verification.
BadMembersAnswered ==
    /\ HandlerResponds("group_create") \/ (HandlerResponds("group_update") /\ pc' = pc)
    /\ MissingMembers(out'.req.body.members) \cup
          UnauthenticatedMembers(out'.req.body.members) # {}

\* C28 as stated: a group creation or update with a member id that resolves to
\* no user fails with NOT_FOUND, one with a member id that resolves to a user
\* with authenticated = false (and none that resolves to no user) fails with
\* INVALID_INPUT, and neither inserts or updates a row.
C28_BadMemberDecidesTheAnswer ==
    [][BadMembersAnswered =>
          /\ groups' = groups
          /\ IF MissingMembers(out'.req.body.members) # {}
             THEN out'.resp.code = "NOT_FOUND"
             ELSE out'.resp.code = "INVALID_INPUT"
    ]_vars

\* C28 amended: a group creation or update with a member id that fails the
\* verification inserts or updates no row; it is answered INVALID_INPUT when the
\* body fails validation, else, for an update, NOT_FOUND "Group not found" when
\* the key has no row and FORBIDDEN when the caller has no row under it, else
\* by the first failing id of the list: 404 NOT_FOUND "Member not found" when
\* it resolves to no user, 400 INVALID_INPUT "Member not authenticated" when
\* the user's flag is false.  The row loop of an update starts only when every
\* member id resolves to a user with authenticated = true.
C28_FirstBadMemberStopsTheRequest ==
    [][/\ BadMembersAnswered =>
            LET body == out'.req.body
                k == FirstBadMember(body.members)
                update == out'.ep = "group_update"
            IN /\ groups' = groups
               /\ ~out'.resp.success
               /\ IF body.name = "" \/ (~update /\ body.group_id = "")
                  THEN out'.resp.code = "INVALID_INPUT" /\ out'.resp.message = "Invalid request data"
                  ELSE IF update /\ MembersOf(out'.req.id) = {}
                  THEN out'.resp.code = "NOT_FOUND" /\ out'.resp.message = "Group not found"
                  ELSE IF update /\ CallerOf(out'.req.hdr).id \notin MembersOf(out'.req.id)
                  THEN out'.resp.code = "FORBIDDEN"
                  ELSE IF k \in MissingMembers(body.members)
                  THEN /\ out'.resp.status = StatusNotFound
                       /\ out'.resp.code = "NOT_FOUND"
                       /\ out'.resp.message = "Member not found"
                  ELSE /\ out'.resp.status = StatusBadRequest
                       /\ out'.resp.code = "INVALID_INPUT"
                       /\ out'.resp.message = "Member not authenticated"
       /\ \A w \in Workers :
            (pc[w] = "idle" /\ pc'[w] = "group_update") =>
               MissingMembers(loc'[w].rq.body.members) \cup
                  UnauthenticatedMembers(loc'[w].rq.body.members) = {}
    ]_vars

\* C28 witness: with rows stored, a group update by a member whose list names a
\* user with authenticated = false ahead of an id of no user has just been
\* answered "Member not authenticated".
C28_UnauthenticatedBeforeMissing ==
    /\ out.ep = "group_update"
    /\ out.by = "handler"
    /\ out.resp.message = "Member not authenticated"
    /\ out.req.body.members = <<1, 9>>
    /\ CallerOf(out.req.hdr).id \in MembersOf(out.req.id)

(***************************************************************************)
(* Two deletes of one group served at once, each sent by either member,    *)
(* while creations add rows under the key; no store call fails in the      *)
(* driver.                                                                 *)
(***************************************************************************)
NextDeleteRace ==
    \/ \E w \in Workers, hdr \in MemberHeaders : GroupDeleteStart(w, hdr, "g1")
    \/ \E w \in Workers : GroupDeleteRow(w, FALSE)
    \/ \E hdr \in MemberHeaders : GroupCreate(hdr, RaceCreate, 0)
    \/ Deliver

SpecDeleteRace == InitRace /\ [][NextDeleteRace]_vars

\* C29 as stated: with two deletes of one group in progress and no driver
\* error, a delete is answered with success, or with NOT_FOUND when it read the
\* group after all its rows were gone.
C29_ConcurrentDeletesSucceed ==
    [][HandlerResponds("group_delete") =>
          \/ out'.resp.success
          \/ /\ out'.resp.code = "NOT_FOUND"
             /\ MembersOf(out'.req.id) = {}
    ]_vars

\* C29 amended: with no driver error, no store call of a delete loop ends the
\* request for a row the other request removed; a delete that entered its loop
\* ends with success, and none of the rows it read is stored then.  A delete is
\* refused on arrival only with NOT_FOUND "Group not found", when no row of the
\* key is left, or with 403 FORBIDDEN, when the other request has removed the
\* caller's row and another row of the key is left.
C29_DeleteSkipsRowsAlreadyGone ==
    [][/\ \A w \in Workers : DeleteLoopStep(w) =>
            /\ pc'[w] = "idle" =>
                  /\ out'.ep = "group_delete" /\ out'.resp.success
                  /\ \A i \in 1..Len(loc[w].rows) : loc[w].rows[i].id \notin RowIDs(groups')
            /\ pc'[w] # "idle" => out' = out
       /\ (HandlerResponds("group_delete") /\ pc' = pc) =>
            IF MembersOf(out'.req.id) = {}
            THEN /\ out'.resp.status = StatusNotFound
                 /\ out'.resp.code = "NOT_FOUND"
                 /\ out'.resp.message = "Group not found"
            ELSE /\ out'.resp.status = StatusForbidden
                 /\ out'.resp.code = "FORBIDDEN"
                 /\ CallerOf(out'.req.hdr).id \notin MembersOf(out'.req.id)
    ]_vars

\* C29 witness: user 3's delete has just ended with success and no row is
\* left, while user 2's delete, which read the same two rows and is past its
\* first store call, is still in its loop.
C29_BothDeletesOverlap ==
    /\ out.ep = "group_delete"
    /\ out.resp.success
    /\ CallerOf(out.req.hdr).id = 3
    /\ groups = <<>>
    /\ pc[1] = "group_delete"
    /\ CallerOf(loc[1].rq.hdr).id = 2
    /\ RowIDs(loc[1].rows) = RowIDs(RaceGroups)
    /\ loc[1].i = 2

(***************************************************************************)
(* The quote endpoints called with JSON bodies that carry an uploader_id   *)
(* key next to the fields of the request types.                            *)
(***************************************************************************)
\* 9 is the id of no user.
UploaderIDs == {2, 3, 9}

UploaderCreateRequests ==
    {[text |-> "t1", author |-> "x", group_id |-> g, uploader_id |-> u] :
        g \in {"g1", "g2"}, u \in UploaderIDs}

UploaderUpdateRequests ==
    {[text |-> "t2", author |-> "y", uploader_id |-> u] : u \in UploaderIDs}

NextUploader ==
    \/ \E hdr \in SessionHeaders, req \in UploaderCreateRequests, execFails \in BOOLEAN :
          QuoteCreate(hdr, req, execFails)
    \/ \E hdr \in SessionHeaders, id \in QuoteIDs, req \in UploaderUpdateRequests,
          execFails \in BOOLEAN :
          QuoteUpdate(hdr, id, req, execFails)
    \/ \E hdr \in SessionHeaders, id \in QuoteIDs, execFails \in BOOLEAN :
          QuoteDelete(hdr, id, execFails)
    \/ Deliver

SpecUploader == InitQuotes /\ [][NextUploader]_vars

\* Every stored quote's uploader id is the id of a stored user.
UploadersExist == \A q \in Range(quotes) : \E u \in users : u.id = q.uploader_id

\* A quote stored by the step is stored by a quote creation the strict gate let
\* in and carries the id of the user the gate resolved; a quote stored before
\* the step and after it has the uploader id it had.
UploaderSetOnceByGate ==
    \A q \in Range(quotes') :
        IF \E p \in Range(quotes) : p.id = q.id
        THEN \A p \in Range(quotes) : p.id = q.id => p.uploader_id = q.uploader_id
        ELSE /\ HandlerResponds("quote_create")
             /\ GoodCredential(out'.req.hdr)
             /\ q.uploader_id = out'.req.hdr.token.uid

\* C30: in every reachable state each stored quote's uploader id is the id of
\* a stored user; a quote gets it from the user the strict gate resolved for
\* the creating request, whatever the body says, and no step changes it.
C30_UploaderIsTheGateUser ==
    []UploadersExist /\ [][UploaderSetOnceByGate]_vars

\* C30 witness: a creation whose body names another uploader has just stored a
\* quote under the caller's id.
C30_BodyUploaderIgnored ==
    /\ out.ep = "quote_create"
    /\ out.by = "handler"
    /\ out.resp.success
    /\ out.req.body.uploader_id # CallerOf(out.req.hdr).id
    /\ \E q \in Range(quotes) : /\ q.id = out.resp.data.id
                                /\ q.uploader_id = CallerOf(out.req.hdr).id

====
